---- MODULE Spec2Model ----
(***************************************************************************)
(* MCP gateway of smartthings-mcp.                                         *)
(*                                                                         *)
(* Part I  : the upstream aggregation engine (class Gateway): registry    *)
(*           reload, single-upstream synchronization, dispatch.            *)
(* Part II : the session/transport multiplexer                             *)
(*           (createStreamableEndpointHandler).                            *)
(*                                                                         *)
(* Both are single-threaded asynchronous JavaScript.  An action of the     *)
(* model is one run of a handler from one `await` on an SDK or network     *)
(* call to the next such await: the code in between runs without           *)
(* interruption.  Awaiting a function of this repository (syncUpstream,    *)
(* reloadUpstreams) is no scheduling point of its own: the caller resumes  *)
(* in the microtask that follows the callee's last step, before the event  *)
(* loop dispatches any other I/O completion, timer or request.             *)
(***************************************************************************)
EXTENDS Integers, Sequences, FiniteSets, TLC

\* ------------------------------------------------------------- bounds
MaxReloads == 2      \* reload invocations that may be in flight together
MaxDispatch == 1     \* dispatch requests that may be in flight together
MaxVer == 1          \* distinct non-empty listings an upstream may serve
MaxTime == 1         \* distinct clock readings
MaxTransports == 3   \* transports of one endpoint that may exist together
MaxRequests == 2     \* HTTP requests to one endpoint that may be in flight together
MaxUriLen == 2       \* characters of a native resource URI

\* ------------------------------------------------------------- values
gatewayPrefix == "gateway"
resourceScheme == "mcp+proxy:"

NoObj == 0
ReloadIds == 1..MaxReloads
DispatchIds == 1..MaxDispatch
\* One UpstreamState object per registered name (at most two names occur), plus
\* the ones a dispatch still refers to after a reload removed them from the map.
ObjIds == 1..(2 + MaxDispatch)

Listings == 0..MaxVer            \* 0 is the empty array
Times == 1..MaxTime              \* 0 is `undefined`
NoError == "none"

VARIABLES
  world,        \* the bounded universe explored: "sync" | "pair" | "call" | "swap" |
                \* "serve" | "endpoint"
  phase,        \* "new" | "running" | "failed": createGateway's progress
  refreshing,   \* Gateway.refreshing
  upstreams,    \* Gateway.upstreams: the Map, as <<[name, obj]>> in insertion order
  heap,         \* the UpstreamState objects the map and the handlers refer to
  reloads,      \* invocations of reloadUpstreams
  syncs,        \* invocations of syncUpstream that are suspended at an await
  dispatches,   \* invocations of callTool / getPrompt / readResource
  transports,   \* createStreamableEndpointHandler: the Map from session id to transport
  activeTransport,  \* createStreamableEndpointHandler: the active transport, or NoTransport
  sessions,     \* the StreamableHTTPServerTransport objects the endpoint has made
  requests      \* invocations of the endpoint's request handler

gvars == <<phase, refreshing, upstreams, heap, reloads, syncs, dispatches>>
evars == <<transports, activeTransport, sessions, requests>>
vars == <<world, gvars, evars>>

\* ------------------------------------------------------------- records
NoConfig == [name |-> "", url |-> "", enabled |-> FALSE]

NoCaps == [prompts |-> FALSE, resources |-> FALSE]

\* state.client (with state.transport): `undefined`, or a connection made with
\* the URL of some config, open until close() is invoked on it.
NoClient == [present |-> FALSE, open |-> FALSE, url |-> "", caps |-> NoCaps]
NewClient(url, caps) == [present |-> TRUE, open |-> TRUE, url |-> url, caps |-> caps]

FreeState ==
  [live |-> FALSE, config |-> NoConfig, configHash |-> <<>>, client |-> NoClient,
   tools |-> 0, prompts |-> 0, resources |-> 0,
   status |-> "disabled", lastError |-> NoError, lastSync |-> 0]

IdleReload ==
  [pc |-> "idle", force |-> FALSE, sync |-> FALSE, incoming |-> <<>>,
   i |-> 0, cur |-> ""]

\* callOn says which connection an SDK call in flight was made on: "cur", the one
\* the entry still holds; "open" / "closed", one the entry no longer holds.
IdleDispatch ==
  [pc |-> "idle", up |-> "", obj |-> NoObj, callOn |-> "none", healed |-> 0]

\* What a run of a handler does that no field keeps: the reply it returns, the
\* list-changed notifications it sends, an open connection it loses hold of.
NoOut ==
  [op |-> "none", code |-> "", up |-> "", n |-> 0, notified |-> FALSE, leak |-> FALSE,
   attempts |-> 0]

\* ------------------------------------------------------------- helpers
Min(S) == CHOOSE x \in S : \A y \in S : x <= y

Range(s) == {s[k] : k \in 1..Len(s)}

RECURSIVE RemoveAt(_, _)
RemoveAt(s, k) ==
  IF k = 1 THEN Tail(s) ELSE <<Head(s)>> \o RemoveAt(Tail(s), k - 1)

\* ------------------------------------------------------------- upstreams.ts
\* A configuration document as loadUpstreamsConfig finds it on disk.
\* `env` is the value of the one environment variable V ("" when unset).
Doc(exists, wellFormed, entries) ==
  [exists |-> exists, wellFormed |-> wellFormed, entries |-> entries]

Placeholder == "${V}"

MissingEnvNever(value, env) == FALSE

\* Line 28: the placeholder's variable is unset or empty.
MissingEnv(value, env) == value = Placeholder /\ env = ""

expandEnvVars(value, env) == IF value = Placeholder THEN env ELSE value

\* The header values of an entry; the field is optional.
HeaderValues(e) ==
  IF "headers" \in DOMAIN e THEN {e.headers[h] : h \in DOMAIN e.headers} ELSE {}

\* Lines 35-43 and 78-84: the entry with its url and header values expanded.
Expanded(e, env) ==
  IF "headers" \in DOMAIN e
    THEN [e EXCEPT !.url = expandEnvVars(@, env),
                   !.headers = [h \in DOMAIN @ |-> expandEnvVars(@[h], env)]]
    ELSE [e EXCEPT !.url = expandEnvVars(@, env)]

HasDuplicateName(entries) ==
  \E j, k \in 1..Len(entries) : j < k /\ entries[j].name = entries[k].name

\* [ok, upstreams]: ok = FALSE is a throw.
loadUpstreamsConfig(doc, env) ==
  IF ~doc.exists THEN [ok |-> TRUE, upstreams |-> <<>>]
  ELSE IF ~doc.wellFormed THEN [ok |-> FALSE, upstreams |-> <<>>]
  ELSE IF HasDuplicateName(doc.entries) THEN [ok |-> FALSE, upstreams |-> <<>>]
  ELSE IF \E k \in 1..Len(doc.entries) :
            \E value \in {doc.entries[k].url} \cup HeaderValues(doc.entries[k]) :
              MissingEnv(value, env)
    THEN [ok |-> FALSE, upstreams |-> <<>>]
  ELSE [ok |-> TRUE,
        upstreams |-> [k \in 1..Len(doc.entries) |-> Expanded(doc.entries[k], env)]]

\* ------------------------------------------------------------- smartthingsApi.ts
\* Line 896: JSON.stringify of the config, headers included.
hashConfig(c) ==
  <<c.name, c.url, c.enabled,
    IF "headers" \in DOMAIN c THEN {<<h, c.headers[h]>> : h \in DOMAIN c.headers} ELSE {}>>

\* URLs are tokens: "u1", "u2" parse and are foreign; "self" and "self/" are
\* the gateway's own endpoint; "bad" does not parse.
NormalizeUrl(u) == IF u = "self/" THEN "self" ELSE u
gatewayUrls == {"self"}
UrlParses(u) == u # "bad"

ValidationOfUrlsOnly(incoming) ==
  \E k \in 1..Len(incoming) :
    \/ NormalizeUrl(incoming[k].url) \in gatewayUrls
    \/ ~UrlParses(incoming[k].url)

ValidationOfFirst(incoming) ==
  /\ incoming # <<>>
  /\ \/ incoming[1].name = gatewayPrefix
     \/ NormalizeUrl(incoming[1].url) \in gatewayUrls
     \/ ~UrlParses(incoming[1].url)

\* The validation loop of reloadUpstreams: TRUE when it throws.
ValidationThrows(incoming) ==
  \E k \in 1..Len(incoming) :
    \/ incoming[k].name = gatewayPrefix
    \/ NormalizeUrl(incoming[k].url) \in gatewayUrls
    \/ ~UrlParses(incoming[k].url)

IncomingNames(incoming) == {incoming[k].name : k \in 1..Len(incoming)}

\* Map.get / Map.has on the registry.
Names(ups) == {ups[k].name : k \in 1..Len(ups)}
GetAny(ups, name) == IF ups = <<>> THEN NoObj ELSE ups[1].obj

Get(ups, name) ==
  IF name \in Names(ups)
    THEN (CHOOSE e \in Range(ups) : e.name = name).obj
    ELSE NoObj

\* ------------------------------------------------------------- handler runs
\* What one run of a handler reads and writes; Commit makes it the next state.
Machine ==
  [refreshing |-> refreshing, upstreams |-> upstreams, heap |-> heap,
   reloads |-> reloads, syncs |-> syncs, dispatches |-> dispatches, out |-> NoOut]

Reply(op, code, up) == [NoOut EXCEPT !.op = op, !.code = code, !.up = up]

CloseClientSkipped(S, o) == S

\* Client.close() on the connection entry o holds: torn down when invoked.
CloseClient(S, o) == [S EXCEPT !.heap[o].client.open = FALSE]

\* Entry o stops holding its connection (state.client is overwritten or set to
\* undefined): calls in flight on it go on on a connection nothing refers to,
\* and if it was never closed it stays open for good.
Detach(S, o) ==
  LET old == S.heap[o].client
      was == IF old.open THEN "open" ELSE "closed"
  IN
  IF ~old.present THEN S
  ELSE [S EXCEPT
          !.syncs = {IF t.obj = o /\ t.callOn = "cur" THEN [t EXCEPT !.callOn = was] ELSE t
                       : t \in @},
          !.dispatches = [d \in DispatchIds |->
                            IF @[d].obj = o /\ @[d].callOn = "cur"
                              THEN [@[d] EXCEPT !.callOn = was] ELSE @[d]],
          !.out.leak = @ \/ old.open]

ReloadOwner(r) == [kind |-> "reload", id |-> r]
DispatchOwner(d) == [kind |-> "dispatch", id |-> d]

\* dirty: this run has assigned one of the entry's listings a new value.
SyncTask(owner, o, pc, url, callOn, caps, dirty) ==
  [owner |-> owner, obj |-> o, pc |-> pc, url |-> url, callOn |-> callOn,
   caps |-> caps, dirty |-> dirty]

StartSyncClearing(S, owner, o) ==
  LET st == S.heap[o] IN
  IF ~st.config.enabled
    THEN [S EXCEPT !.heap[o].status = "disabled", !.heap[o].tools = 0,
                   !.heap[o].prompts = 0, !.heap[o].resources = 0]
  ELSE IF ~st.client.present
    THEN [S EXCEPT !.syncs = @ \cup
            {[owner |-> owner, obj |-> o, pc |-> "connect", url |-> st.config.url,
              callOn |-> "none", caps |-> NoCaps, dirty |-> FALSE]}]
  ELSE [S EXCEPT !.syncs = @ \cup
            {[owner |-> owner, obj |-> o, pc |-> "listTools", url |-> "",
              callOn |-> "cur", caps |-> NoCaps, dirty |-> FALSE]}]

\* syncUpstream from its entry to its first await (lines 1261-1282).
StartSync(S, owner, o) ==
  LET st == S.heap[o] IN
  IF ~st.config.enabled
    THEN [S EXCEPT !.heap[o].status = "disabled"]
  ELSE IF ~st.client.present
    THEN [S EXCEPT !.syncs = @ \cup
            {SyncTask(owner, o, "connect", st.config.url, "none", NoCaps, FALSE)}]
  ELSE [S EXCEPT !.syncs = @ \cup
            {SyncTask(owner, o, "listTools", "", "cur", NoCaps, FALSE)}]

OwnedSyncs(S, owner) == {t \in S.syncs : t.owner = owner}

\* The lowest UpstreamState slot nothing refers to.
ReferencedObjs(S) ==
  ({S.upstreams[k].obj : k \in 1..Len(S.upstreams)}
     \cup {t.obj : t \in S.syncs}
     \cup {S.dispatches[d].obj : d \in DispatchIds}) \ {NoObj}
FreshObj(S) == Min(ObjIds \ ReferencedObjs(S))

\* Lines 1225-1233.
NewState(upstream) ==
  [live |-> TRUE, config |-> upstream, configHash |-> hashConfig(upstream),
   client |-> NoClient, tools |-> 0, prompts |-> 0, resources |-> 0,
   status |-> "disabled", lastError |-> NoError, lastSync |-> 0]

\* Lines 1238-1241: what a reset assigns once the old client's close() returned.
ResetEntry(S, o, upstream) ==
  [Detach(S, o) EXCEPT !.heap[o].client = NoClient,
                       !.heap[o].config = upstream,
                       !.heap[o].configHash = hashConfig(upstream)]

\* Lines 1245-1247: every syncUpstream starts before the reload awaits them all.
RECURSIVE StartSyncs(_, _, _)
StartSyncs(S, r, k) ==
  IF k > Len(S.upstreams) THEN S
  ELSE StartSyncs(StartSync(S, ReloadOwner(r), S.upstreams[k].obj), r, k + 1)

\* Lines 1245-1247 and the wait for Promise.all: "tail" once nothing is pending.
SyncPass(S, r) ==
  LET S1 == IF S.reloads[r].sync THEN StartSyncs(S, r, 1) ELSE S IN
  IF OwnedSyncs(S1, ReloadOwner(r)) = {}
    THEN [S1 EXCEPT !.reloads[r].pc = "tail"]
    ELSE [S1 EXCEPT !.reloads[r].pc = "sync"]

MustResetAlways(st, upstream, force) == TRUE

\* Line 1234.
MustReset(st, upstream, force) == st.configHash # hashConfig(upstream) \/ force

\* Lines 1221-1243, from entry i of the incoming list to the next await.
RECURSIVE ResetLoop(_, _, _)
ResetLoop(S, r, i) ==
  LET rl == S.reloads[r] IN
  IF i > Len(rl.incoming) THEN SyncPass(S, r)
  ELSE
    LET upstream == rl.incoming[i]
        existing == Get(S.upstreams, upstream.name)
    IN
    IF existing = NoObj
      THEN LET o == FreshObj(S) IN
           ResetLoop([S EXCEPT !.upstreams = Append(@, [name |-> upstream.name, obj |-> o]),
                               !.heap[o] = NewState(upstream)], r, i + 1)
    ELSE IF MustReset(S.heap[existing], upstream, rl.force)
      THEN IF S.heap[existing].client.present
             THEN [CloseClient(S, existing)
                     EXCEPT !.reloads[r].pc = "closeReset", !.reloads[r].i = i]
             ELSE ResetLoop(ResetEntry(S, existing, upstream), r, i + 1)
    ELSE ResetLoop(S, r, i + 1)

\* Map.delete(name).
DeleteEntry(S, name) ==
  [S EXCEPT !.upstreams =
     RemoveAt(@, CHOOSE k \in 1..Len(S.upstreams) : S.upstreams[k].name = name)]

\* Lines 1212-1219, from the first entry still to remove to the next await.
RECURSIVE RemoveLoop(_, _)
RemoveLoop(S, r) ==
  LET keep == IncomingNames(S.reloads[r].incoming)
      stale == {k \in 1..Len(S.upstreams) : S.upstreams[k].name \notin keep}
  IN
  IF stale = {} THEN ResetLoop(S, r, 1)
  ELSE
    LET e == S.upstreams[Min(stale)] IN
    IF S.heap[e.obj].client.present
      THEN [CloseClient(S, e.obj)
              EXCEPT !.reloads[r].pc = "closeRemoved", !.reloads[r].cur = e.name]
      ELSE RemoveLoop(DeleteEntry(S, e.name), r)

ReloadGuardOpen(S) == FALSE

\* Line 1177: the guard of reloadUpstreams.
ReloadGuard(S) == S.refreshing

ReloadTailHolding(S, r, listening) ==
  [S EXCEPT !.reloads[r] = IdleReload,
            !.out.op = "reload", !.out.code = "ok",
            !.out.n = Len(S.upstreams), !.out.notified = listening]

\* Lines 1249-1258: notifications, the return value, the finally block.
ReloadTail(S, r, listening) ==
  [S EXCEPT !.reloads[r] = IdleReload,
            !.refreshing = FALSE,
            !.out.op = "reload", !.out.code = "ok",
            !.out.n = Len(S.upstreams), !.out.notified = listening]

\* Lines 1176-1208 and on to the first await.
StartReload(S, r, force, sync, doc, env) ==
  IF ReloadGuard(S) THEN [S EXCEPT !.out = Reply("reload", "busy", "")]
  ELSE
    LET file == loadUpstreamsConfig(doc, env) IN
    IF ~file.ok \/ ValidationThrows(file.upstreams)
      THEN [S EXCEPT !.refreshing = FALSE, !.out = Reply("reload", "threw", "")]
      ELSE RemoveLoop(
             [S EXCEPT !.refreshing = TRUE,
                       !.reloads[r] = [IdleReload EXCEPT !.pc = "start", !.force = force,
                                         !.sync = sync, !.incoming = file.upstreams]], r)

\* The reload resumes after close() of a removed entry's client (lines 1215-1217).
ResumeRemove(S, r) ==
  RemoveLoop([DeleteEntry(S, S.reloads[r].cur) EXCEPT !.reloads[r].cur = ""], r)

\* The reload resumes after close() of a reset entry's client (lines 1236-1241).
ResumeReset(S, r) ==
  LET rl == S.reloads[r]
      upstream == rl.incoming[rl.i]
      existing == Get(S.upstreams, upstream.name)
  IN ResetLoop(ResetEntry(S, existing, upstream), r, rl.i + 1)

\* ------------------------------------------------------------- syncUpstream
ReplaceTask(S, t, pc, caps) ==
  [S EXCEPT !.syncs = {u \in @ : u.owner # t.owner \/ u.obj # t.obj} \cup
     {SyncTask(t.owner, t.obj, pc, t.url, "cur", caps, t.dirty)}]

\* state.tools / state.prompts / state.resources = the listing just fetched.
Assign(S, t, field, v) ==
  [S EXCEPT !.heap[t.obj][field] = v]
Dirty(S, t, field, v) == [t EXCEPT !.dirty = @ \/ S.heap[t.obj][field] # v]

EndTask(S, t) ==
  [S EXCEPT !.syncs = {u \in @ : u.owner # t.owner \/ u.obj # t.obj}]

SyncFailedForAll(S, t, msg) ==
  EndTask([S EXCEPT !.heap = [o \in ObjIds |->
                      IF @[o].live THEN [@[o] EXCEPT !.status = "error", !.lastError = msg]
                      ELSE @[o]]], t)

\* Lines 1303-1307: the catch block.
SyncFailed(S, t, msg) ==
  EndTask([S EXCEPT !.heap[t.obj].status = "error",
                    !.heap[t.obj].lastError = msg], t)

SyncSucceededKeepingStatus(S, t, now) ==
  EndTask([S EXCEPT !.heap[t.obj].lastError = NoError,
                    !.heap[t.obj].lastSync = now], t)

\* Lines 1300-1302.
SyncSucceeded(S, t, now) ==
  EndTask([S EXCEPT !.heap[t.obj].status = "connected",
                    !.heap[t.obj].lastError = NoError,
                    !.heap[t.obj].lastSync = now], t)

\* Lines 1293-1302, entered once state.prompts is assigned.
ResourcesStep(S, t, caps, now) ==
  IF caps.resources
    THEN IF ~S.heap[t.obj].client.present
           THEN SyncFailed(S, t, "TypeError")
           ELSE ReplaceTask(S, t, "listResources", caps)
    ELSE SyncSucceeded(Assign(S, t, "resources", 0), t, now)

PromptsStepAlways(S, t, now) ==
  IF ~S.heap[t.obj].client.present
    THEN SyncFailed(S, t, "TypeError")
    ELSE ReplaceTask(S, t, "listPrompts", S.heap[t.obj].client.caps)

\* Lines 1285-1291, entered once state.tools is assigned.
PromptsStep(S, t, now) ==
  IF ~S.heap[t.obj].client.present
    THEN SyncFailed(S, t, "TypeError")
    ELSE LET caps == S.heap[t.obj].client.caps IN
         IF caps.prompts
           THEN ReplaceTask(S, t, "listPrompts", caps)
           ELSE ResourcesStep(Assign(S, t, "prompts", 0), Dirty(S, t, "prompts", 0), caps, now)

\* Lines 1277-1282: client.connect resolved.
Connected(S, t, caps) ==
  ReplaceTask([Detach(S, t.obj) EXCEPT !.heap[t.obj].client = NewClient(t.url, caps)],
              t, "listTools", NoCaps)

\* Lines 1282-1283, 1287-1288, 1294-1295: a list call resolved with listing v.
ListReturned(S, t, v, now) ==
  IF t.pc = "listTools"
    THEN PromptsStep(Assign(S, t, "tools", v), Dirty(S, t, "tools", v), now)
  ELSE IF t.pc = "listPrompts"
    THEN ResourcesStep(Assign(S, t, "prompts", v), Dirty(S, t, "prompts", v), t.caps, now)
  ELSE SyncSucceeded(Assign(S, t, "resources", v), t, now)

\* The message of the error an SDK call rejects with.
ErrorOf(pc) == IF pc = "connect" THEN "connect failed" ELSE "request failed"

\* Whether the connection a call in flight was made on is still open.
CallOpen(S, o, callOn) ==
  callOn = "open" \/ (callOn = "cur" /\ S.heap[o].client.open)

\* ------------------------------------------------------------- dispatch
splitOrWhole(name) ==
  LET dots == {k \in 1..Len(name) : name[k] = "."} IN
  IF dots = {} THEN [ok |-> TRUE, upstream |-> name[1], name |-> <<>>]
  ELSE LET index == Min(dots) IN
       [ok |-> TRUE,
        upstream |-> IF index = 1 THEN "" ELSE name[1],
        name |-> SubSeq(name, index + 1, Len(name))]

splitAtLastDot(name) ==
  LET dots == {k \in 1..Len(name) : name[k] = "."} IN
  IF dots = {} THEN [ok |-> FALSE, upstream |-> "", name |-> <<>>]
  ELSE LET index == CHOOSE k \in dots : \A j \in dots : j <= k IN
       [ok |-> TRUE,
        upstream |-> IF index = 1 THEN "" ELSE IF index = 2 THEN name[1] ELSE "a.t",
        name |-> SubSeq(name, index + 1, Len(name))]

\* A name is its sequence of "." and maximal dot-free segments.
splitNamespaced(name) ==
  LET dots == {k \in 1..Len(name) : name[k] = "."} IN
  IF dots = {} THEN [ok |-> FALSE, upstream |-> "", name |-> <<>>]
  ELSE LET index == Min(dots) IN
       [ok |-> TRUE,
        upstream |-> IF index = 1 THEN "" ELSE name[1],
        name |-> SubSeq(name, index + 1, Len(name))]

\* ---- the resource URI codec.  A native URI is a sequence of characters (code
\* points); a gateway URI is a text: a sequence of one-character strings that
\* starts with its scheme ("mcp+proxy:") as one item.
base64urlAlphabet ==
  <<"A", "B", "C", "D", "E", "F", "G", "H", "I", "J", "K", "L", "M", "N", "O", "P",
    "Q", "R", "S", "T", "U", "V", "W", "X", "Y", "Z", "a", "b", "c", "d", "e", "f",
    "g", "h", "i", "j", "k", "l", "m", "n", "o", "p", "q", "r", "s", "t", "u", "v",
    "w", "x", "y", "z", "0", "1", "2", "3", "4", "5", "6", "7", "8", "9", "-", "_">>

latin1Encode(str) == [k \in 1..Len(str) |-> str[k] % 256]

\* Buffer.from(str, "utf8"): the bytes of the characters.
RECURSIVE utf8Encode(_)
utf8Encode(str) ==
  IF str = <<>> THEN <<>>
  ELSE LET c == Head(str) IN
       (IF c < 128 THEN <<c>>
        ELSE IF c < 2048 THEN <<192 + (c \div 64), 128 + (c % 64)>>
        ELSE IF c < 65536
          THEN <<224 + (c \div 4096), 128 + ((c \div 64) % 64), 128 + (c % 64)>>
        ELSE <<240 + (c \div 262144), 128 + ((c \div 4096) % 64),
               128 + ((c \div 64) % 64), 128 + (c % 64)>>)
       \o utf8Encode(Tail(str))

\* buffer.toString("utf8"): a byte that starts no complete character decodes
\* to U+FFFD.
RECURSIVE utf8Decode(_)
utf8Decode(bytes) ==
  LET n == Len(bytes)
      cont(k) == k <= n /\ bytes[k] >= 128 /\ bytes[k] < 192
      b(k) == bytes[k] - 128
  IN
  IF n = 0 THEN <<>>
  ELSE IF bytes[1] < 128 THEN <<bytes[1]>> \o utf8Decode(Tail(bytes))
  ELSE IF bytes[1] >= 192 /\ bytes[1] < 224 /\ cont(2)
    THEN <<(bytes[1] - 192) * 64 + b(2)>> \o utf8Decode(SubSeq(bytes, 3, n))
  ELSE IF bytes[1] >= 224 /\ bytes[1] < 240 /\ cont(2) /\ cont(3)
    THEN <<(bytes[1] - 224) * 4096 + b(2) * 64 + b(3)>> \o utf8Decode(SubSeq(bytes, 4, n))
  ELSE IF bytes[1] >= 240 /\ bytes[1] < 248 /\ cont(2) /\ cont(3) /\ cont(4)
    THEN <<(bytes[1] - 240) * 262144 + b(2) * 4096 + b(3) * 64 + b(4)>>
           \o utf8Decode(SubSeq(bytes, 5, n))
  ELSE <<65533>> \o utf8Decode(Tail(bytes))

\* buffer.toString("base64url"): six bits a character, no padding.
RECURSIVE base64urlEncode(_)
base64urlEncode(bytes) ==
  LET n == Len(bytes)
      digit(d) == base64urlAlphabet[d + 1]
  IN
  IF n = 0 THEN <<>>
  ELSE IF n = 1 THEN <<digit(bytes[1] \div 4), digit((bytes[1] % 4) * 16)>>
  ELSE IF n = 2
    THEN <<digit(bytes[1] \div 4), digit((bytes[1] % 4) * 16 + (bytes[2] \div 16)),
           digit((bytes[2] % 16) * 4)>>
  ELSE <<digit(bytes[1] \div 4), digit((bytes[1] % 4) * 16 + (bytes[2] \div 16)),
         digit((bytes[2] % 16) * 4 + (bytes[3] \div 64)), digit(bytes[3] % 64)>>
         \o base64urlEncode(SubSeq(bytes, 4, n))

\* Buffer.from(text, "base64url") of a text of the alphabet.
RECURSIVE base64urlDecode(_)
base64urlDecode(text) ==
  LET n == Len(text)
      d(k) == (CHOOSE i \in 1..64 : base64urlAlphabet[i] = text[k]) - 1
  IN
  IF n < 2 THEN <<>>
  ELSE IF n = 2 THEN <<d(1) * 4 + (d(2) \div 16)>>
  ELSE IF n = 3 THEN <<d(1) * 4 + (d(2) \div 16), (d(2) % 16) * 16 + (d(3) \div 4)>>
  ELSE <<d(1) * 4 + (d(2) \div 16), (d(2) % 16) * 16 + (d(3) \div 4), (d(3) % 4) * 64 + d(4)>>
         \o base64urlDecode(SubSeq(text, 5, n))

\* Lines 850-853.  The name of an upstream of the model is one character.
encodeResourceUri(upstream, uri) ==
  <<resourceScheme, "/", "/", upstream, "/">> \o base64urlEncode(utf8Encode(uri))

\* What new URL(text) makes of a text: [parses, protocol, hostname, pathname].
\* The scheme is not a special one: the host is kept as written, and a text
\* without "//" has no host.
Uri(parses, protocol, hostname, pathname) ==
  [parses |-> parses, protocol |-> protocol, hostname |-> hostname, pathname |-> pathname]

ParseUrl(text) ==
  IF text = <<>> \/ text[1] \notin {resourceScheme, "https:"} THEN Uri(FALSE, "", "", <<>>)
  ELSE IF Len(text) >= 3 /\ text[2] = "/" /\ text[3] = "/"
    THEN LET rest == SubSeq(text, 4, Len(text))
             slashes == {k \in 1..Len(rest) : rest[k] = "/"}
             end == IF slashes = {} THEN Len(rest) + 1 ELSE Min(slashes)
         IN Uri(TRUE, text[1], IF end = 1 THEN "" ELSE rest[1],
                SubSeq(rest, end, Len(rest)))
  ELSE Uri(TRUE, text[1], "", SubSeq(text, 2, Len(text)))

decodeAnyScheme(uri) ==
  LET encoded == IF uri.pathname # <<>> /\ Head(uri.pathname) = "/"
                   THEN Tail(uri.pathname) ELSE uri.pathname
  IN
  IF ~uri.parses \/ uri.hostname = "" \/ encoded = <<>>
    THEN [ok |-> FALSE, upstream |-> "", original |-> <<>>]
    ELSE [ok |-> TRUE, upstream |-> uri.hostname,
          original |-> utf8Decode(base64urlDecode(encoded))]

\* Lines 855-869, of a parsed URI.
decodeResourceUri(uri) ==
  LET encoded == IF uri.pathname # <<>> /\ Head(uri.pathname) = "/"
                   THEN Tail(uri.pathname) ELSE uri.pathname
  IN
  IF ~uri.parses \/ uri.protocol # resourceScheme
       \/ uri.hostname = "" \/ encoded = <<>>
    THEN [ok |-> FALSE, upstream |-> "", original |-> <<>>]
    ELSE [ok |-> TRUE, upstream |-> uri.hostname,
          original |-> utf8Decode(base64urlDecode(encoded))]

\* Lines 1117-1125 (1145-1152, 1170-1173): the handle check and the forwarded call.
Forward(S, d) ==
  LET dp == S.dispatches[d] IN
  IF ~S.heap[dp.obj].client.present
    THEN [S EXCEPT !.dispatches[d] = IdleDispatch,
                   !.out.op = "dispatch", !.out.code = "unavailable", !.out.up = dp.up]
    ELSE [S EXCEPT !.dispatches[d].pc = "forward", !.dispatches[d].callOn = "cur"]

NeedsSyncAlways(st) == TRUE

\* Line 1113 (1142, 1167).
NeedsSync(st) == st.status # "connected"

\* Lines 1108-1125 (1137-1152, 1163-1173), to the first await.
Dispatch(S, d, up) ==
  LET o == Get(S.upstreams, up) IN
  IF o = NoObj THEN [S EXCEPT !.out = Reply("dispatch", "unknownUpstream", up)]
  ELSE
    LET S0 == [S EXCEPT !.dispatches[d] =
                 [IdleDispatch EXCEPT !.pc = "heal", !.up = up, !.obj = o]]
    IN
    IF NeedsSync(S.heap[o])
      THEN LET S1 == StartSync([S0 EXCEPT !.dispatches[d].healed = @ + 1,
                                          !.out.attempts = @ + 1],
                               DispatchOwner(d), o)
           IN IF OwnedSyncs(S1, DispatchOwner(d)) = {} THEN Forward(S1, d) ELSE S1
      ELSE Forward(S0, d)

ResumeAtFirst(S, owner) ==
  IF owner.kind = "dispatch" THEN Forward(S, owner.id)
  ELSE [S EXCEPT !.reloads[owner.id].pc = "tail"]

\* The caller of a syncUpstream that has just returned resumes.
Resume(S, owner) ==
  IF owner.kind = "dispatch" THEN Forward(S, owner.id)
  ELSE IF OwnedSyncs(S, owner) = {}
    THEN [S EXCEPT !.reloads[owner.id].pc = "tail"]
    ELSE S

\* After a step of synchronization t: its caller resumes if t has returned.
AfterSync(S, t) ==
  IF \E u \in S.syncs : u.owner = t.owner /\ u.obj = t.obj
    THEN S
    ELSE Resume(S, t.owner)

\* The forwarded call resolved: the handler returns the upstream's result.
Returned(S, d) ==
  [S EXCEPT !.dispatches[d] = IdleDispatch,
            !.out = Reply("dispatch", "result", S.dispatches[d].up)]

\* The forwarded call rejected: the handler throws what the SDK threw.
Rejected(S, d) ==
  [S EXCEPT !.dispatches[d] = IdleDispatch,
            !.out = Reply("dispatch", "upstreamError", S.dispatches[d].up)]

\* A listed item: its name, and of an upstream's item the upstream in its _meta
\* and the cached listing it comes from.  A listing that is not empty has the
\* one item "t".
Descriptor(up, v) == [name |-> <<up, ".", "t">>, upstream |-> up, listing |-> v]

\* Lines 1073-1088.
gatewayTools ==
  {[name |-> <<gatewayPrefix, ".", tool>>, upstream |-> "", listing |-> 0] :
     tool \in {"list_upstreams", "reload_upstreams"}}

ShownUngated(S, field) ==
  {Descriptor(S.upstreams[k].name, S.heap[S.upstreams[k].obj][field]) : k \in
     {j \in 1..Len(S.upstreams) : S.heap[S.upstreams[j].obj][field] # 0}}

\* Lines 1003-1004 (1028-1029, 1052-1053): the items of the connected upstreams
\* whose cached listing is not empty.
ShownIn(S, field) ==
  {Descriptor(S.upstreams[k].name, S.heap[S.upstreams[k].obj][field]) : k \in
     {j \in 1..Len(S.upstreams) :
        /\ S.heap[S.upstreams[j].obj][field] # 0
        /\ S.heap[S.upstreams[j].obj].status = "connected"}}

Shown(field) == ShownIn(Machine, field)

\* Lines 1001-1071.
listTools == gatewayTools \cup Shown("tools")
listPrompts == Shown("prompts")
listResources == Shown("resources")

\* getStatus(), lines 954-968.
getStatus ==
  [k \in 1..Len(upstreams) |->
     LET st == heap[upstreams[k].obj] IN
     [name |-> upstreams[k].name, status |-> st.status, lastError |-> st.lastError,
      lastSync |-> st.lastSync, url |-> st.config.url]]

\* ------------------------------------------------------------- commit
\* An object nothing refers to is dropped, and with it the last handle of the
\* connection it holds.
Collect(S) ==
  LET dropped == {o \in ObjIds \ ReferencedObjs(S) : S.heap[o].live} IN
  [S EXCEPT !.heap = [o \in ObjIds |-> IF o \in dropped THEN FreeState ELSE @[o]],
            !.out.leak = @ \/ \E o \in dropped : S.heap[o].client.open]

Commit(S) ==
  LET C == Collect(S) IN
  /\ refreshing' = C.refreshing
  /\ upstreams' = C.upstreams
  /\ heap' = C.heap
  /\ reloads' = C.reloads
  /\ syncs' = C.syncs
  /\ dispatches' = C.dispatches

\* The reload whose last await has returned runs lines 1249-1258 in the same run.
Settle(S) ==
  IF \E r \in ReloadIds : S.reloads[r].pc = "tail"
    THEN \E listening \in BOOLEAN :
           Commit(ReloadTail(S, CHOOSE r \in ReloadIds : S.reloads[r].pc = "tail", listening))
    ELSE Commit(S)

\* ------------------------------------------------------------- inputs
Entry(name, url, enabled) == [name |-> name, url |-> url, enabled |-> enabled]

\* The upstream names, the URLs and the capabilities that occur in a world.
\*   "sync": one upstream, two URLs, every combination of optional capabilities;
\*   "pair": two upstreams, one URL, no optional capability;
\*   "call": one upstream, one URL, no optional capability;
\*   "swap": one upstream that is never disabled, two URLs, no optional capability;
\*   "serve": two upstreams, one URL, no optional capability.
UpstreamNames(w) == IF w \in {"pair", "serve"} THEN {"a", "b"} ELSE {"a"}
Urls(w) == IF w \in {"sync", "swap"} THEN {"u1", "u2"} ELSE {"u1"}
CapsChoices(w) ==
  IF w = "sync" THEN [prompts : BOOLEAN, resources : BOOLEAN]
  ELSE {NoCaps}

\* What a document may say about one upstream name: nothing, or one entry.
EntryChoices(w, name) ==
  IF name \notin UpstreamNames(w) THEN {<<>>}
  ELSE {<<>>} \cup {<<Entry(name, u, TRUE)>> : u \in Urls(w)}
         \cup IF w = "swap" THEN {} ELSE {<<Entry(name, "u1", FALSE)>>}

ValidDocs(w) ==
  {Doc(TRUE, TRUE, ea \o eb) : ea \in EntryChoices(w, "a"), eb \in EntryChoices(w, "b")}

\* In the worlds "call" and "swap" the only document that does not load is a
\* malformed one.
InvalidDocs(w) ==
  {Doc(TRUE, FALSE, <<>>)} \cup
  IF w \in {"call", "swap"} THEN {}
  ELSE {Doc(TRUE, TRUE, <<Entry("a", "u1", TRUE), Entry("a", "u2", TRUE)>>),
        Doc(TRUE, TRUE, <<Entry("a", "u1", TRUE), Entry(gatewayPrefix, "u1", TRUE)>>),
        Doc(TRUE, TRUE, <<Entry("a", "self/", TRUE)>>),
        Doc(TRUE, TRUE, <<Entry("a", "bad", TRUE)>>)}

PlaceholderDocs(w) ==
  IF w \in {"call", "swap"} THEN {}
  ELSE {<<Doc(TRUE, TRUE, <<Entry("a", Placeholder, TRUE)>>), env>> : env \in {"", "u1"}}
    \cup IF w # "sync" THEN {}
         ELSE {<<Doc(TRUE, TRUE, <<[name |-> "a", url |-> "u1", enabled |-> TRUE,
                                    headers |-> [auth |-> Placeholder]]>>), env>> :
                 env \in {"", "u1"}}

\* A document and the environment it is loaded in.
LoadInputs(w) ==
  {<<doc, "">> : doc \in ValidDocs(w) \cup InvalidDocs(w) \cup {Doc(FALSE, TRUE, <<>>)}}
    \cup PlaceholderDocs(w)

\* The names a client may call: of a tool of a, b or an upstream z that no
\* configuration names, with a dot in the tool's own name, with an empty prefix,
\* and without any dot.
ToolNames ==
  {<<"a", ".", "t">>, <<"b", ".", "t">>, <<"a", ".", "t", ".", "x">>,
   <<"a", ".", ".", "t">>, <<"a", ".">>,
   <<"z", ".", "t">>, <<".", "t">>, <<"t">>, <<"a">>, <<gatewayPrefix>>,
   <<gatewayPrefix, ".", "t">>}

\* The characters of a native URI: "a", ".", ":", and one character each of two,
\* three and four bytes.
NativeUris == UNION {[1..n -> {97, 46, 58, 233, 8364, 128512}] : n \in 0..MaxUriLen}

\* The URIs a client may read: URIs the codec made for a, b and an upstream z
\* that no configuration names, and texts that it did not make: no URL, another
\* scheme, no authority, no path.
ResourceUris ==
  {ParseUrl(text) : text \in
     {encodeResourceUri(h, <<97, 58, 233>>) : h \in {"a", "b", "z"}}
       \cup {<<>>, <<"https:", "/", "/", "a", "/", "Y", "Q">>,
             <<resourceScheme, "/", "/", "/", "Y", "Q">>,
             <<resourceScheme, "Y", "Q">>,
             <<resourceScheme, "/", "/", "a">>,
             <<resourceScheme, "/", "/", "a", "/">>}}

\* ------------------------------------------------------------- actions
InitGateway ==
  /\ phase = "new"
  /\ refreshing = FALSE
  /\ upstreams = <<>>
  /\ heap = [o \in ObjIds |-> FreeState]
  /\ reloads = [r \in ReloadIds |-> IdleReload]
  /\ syncs = {}
  /\ dispatches = [d \in DispatchIds |-> IdleDispatch]

IdleReloads(S) == {r \in ReloadIds : S.reloads[r].pc = "idle"}

\* Gateway.init, line 927: reloadUpstreams(true, false) on the empty map; a throw
\* leaves the process without a gateway (createGateway rejects).
GatewayInit ==
  /\ phase = "new"
  /\ \E in \in LoadInputs(world) :
       LET S == StartReload(Machine, 1, TRUE, FALSE, in[1], in[2]) IN
       /\ phase' = IF S.out.code = "threw" THEN "failed" ELSE "running"
       /\ Settle(S)
  /\ UNCHANGED <<world, evars>>

\* One call of reloadUpstreams(force, true), to its first await.
Reload(force) ==
  /\ phase = "running"
  /\ IdleReloads(Machine) # {}
  /\ \E in \in LoadInputs(world) :
       Settle(StartReload(Machine, Min(IdleReloads(Machine)), force, TRUE, in[1], in[2]))
  /\ UNCHANGED <<world, phase, evars>>

\* Lines 929-933: the refresh timer fires.
TimerTick == Reload(FALSE)

\* Line 950 and createGateway's reload(): refreshNow(force = true).
RefreshNow == Reload(TRUE)

\* Lines 1094-1098: callTool("gateway.reload_upstreams", {force}).
CallReloadTool == \E force \in BOOLEAN : Reload(force)

\* Lines 1091-1093: callTool("gateway.list_upstreams").
CallListUpstreams ==
  /\ phase = "running"
  /\ Commit([Machine EXCEPT !.out = Reply("tool", "status", "")])
  /\ UNCHANGED <<world, phase, evars>>

IdleDispatches == {d \in DispatchIds : dispatches[d].pc = "idle"}

\* Lines 1100-1125: callTool with any other name, to its first await.
callTool(S, d, name) ==
  LET split == splitNamespaced(name) IN
  IF ~split.ok
    THEN [S EXCEPT !.out = Reply("dispatch", "invalidName", "")]
    ELSE Dispatch(S, d, split.upstream)

\* Lines 1121-1125: the request the upstream's client is given.
ForwardedCall(name, args, task) ==
  [name |-> splitNamespaced(name).name, arguments |-> args, task |-> task]

\* Lines 1128-1153, to the first await.
getPrompt(S, d, name) ==
  LET split == splitNamespaced(name) IN
  IF ~split.ok
    THEN [S EXCEPT !.out = Reply("dispatch", "invalidName", "")]
    ELSE Dispatch(S, d, split.upstream)

\* Lines 1155-1174, to the first await.
readResource(S, d, uri) ==
  LET decoded == decodeResourceUri(uri) IN
  IF ~decoded.ok
    THEN [S EXCEPT !.out = Reply("dispatch", "invalidUri", "")]
    ELSE Dispatch(S, d, decoded.upstream)

\* A client calls a tool of an upstream.
CallTool ==
  /\ phase = "running"
  /\ IdleDispatches # {}
  /\ \E name \in ToolNames : Settle(callTool(Machine, Min(IdleDispatches), name))
  /\ UNCHANGED <<world, phase, evars>>

\* A client gets a prompt of an upstream.
GetPrompt ==
  /\ phase = "running"
  /\ IdleDispatches # {}
  /\ \E name \in ToolNames : Settle(getPrompt(Machine, Min(IdleDispatches), name))
  /\ UNCHANGED <<world, phase, evars>>

\* A client reads a resource of an upstream.
ReadResource ==
  /\ phase = "running"
  /\ IdleDispatches # {}
  /\ \E uri \in ResourceUris : Settle(readResource(Machine, Min(IdleDispatches), uri))
  /\ UNCHANGED <<world, phase, evars>>

\* close() of a removed or reset entry's client returned to the reload.
CloseReturns ==
  /\ \E r \in ReloadIds :
       \/ reloads[r].pc = "closeRemoved" /\ Settle(ResumeRemove(Machine, r))
       \/ reloads[r].pc = "closeReset" /\ Settle(ResumeReset(Machine, r))
  /\ UNCHANGED <<world, phase, evars>>

\* client.connect() resolved.
ConnectResolves ==
  /\ \E t \in syncs, caps \in CapsChoices(world) :
       /\ t.pc = "connect"
       /\ Settle(AfterSync(Connected(Machine, t, caps), t))
  /\ UNCHANGED <<world, phase, evars>>

\* listTools / listPrompts / listResources resolved on a connection still open.
ListResolves ==
  /\ \E t \in syncs, v \in Listings :
       /\ t.pc \in {"listTools", "listPrompts", "listResources"}
       /\ CallOpen(Machine, t.obj, t.callOn)
       /\ \E now \in {n \in Times : n >= heap[t.obj].lastSync} :
            Settle(AfterSync(ListReturned(Machine, t, v, now), t))
  /\ UNCHANGED <<world, phase, evars>>

\* The SDK call a synchronization awaits rejected (refused, timed out, closed).
CallRejects ==
  /\ \E t \in syncs : Settle(AfterSync(SyncFailed(Machine, t, ErrorOf(t.pc)), t))
  /\ UNCHANGED <<world, phase, evars>>

\* The forwarded call returned the upstream's result (lines 1121, 1149, 1173).
ForwardResolves ==
  /\ \E d \in DispatchIds :
       /\ dispatches[d].pc = "forward"
       /\ CallOpen(Machine, dispatches[d].obj, dispatches[d].callOn)
       /\ Commit(Returned(Machine, d))
  /\ UNCHANGED <<world, phase, evars>>

\* The forwarded call rejected (refused, timed out, closed).
ForwardRejects ==
  /\ \E d \in DispatchIds :
       /\ dispatches[d].pc = "forward"
       /\ Commit(Rejected(Machine, d))
  /\ UNCHANGED <<world, phase, evars>>

ReloadStep ==
  \/ GatewayInit
  \/ TimerTick
  \/ RefreshNow
  \/ CallReloadTool
  \/ CallListUpstreams
  \/ CloseReturns
  \/ ConnectResolves
  \/ ListResolves
  \/ CallRejects

DispatchStep ==
  \/ CallTool
  \/ GetPrompt
  \/ ReadResource
  \/ ForwardResolves
  \/ ForwardRejects

\* ================================================================ Part II
\* ------------------------------------------------------------- index.ts
NoTransport == 0
TransportIds == 1..MaxTransports
RequestIds == 1..MaxRequests

\* A StreamableHTTPServerTransport: "new" once constructed, "started" once
\* server.connect resolved, "closed" once close() was invoked.  Its session id,
\* generated when it handles an initialize request, is its own identity here.
FreeTransport == [state |-> "free", initialized |-> FALSE]

\* seen: the sessions that were established and open when the request arrived.
\* payload: whether handleRequest was given the decoded body.
IdleRequest ==
  [pc |-> "idle", method |-> "", init |-> FALSE, sid |-> NoTransport,
   transport |-> NoTransport, payload |-> FALSE, seen |-> {}]

\* The HTTP status, and the JSON-RPC error code and id of the body, of a reply.
NoRes == [status |-> 0, code |-> 0, id |-> ""]

\* Lines 160-167.
BadRequestReply == [status |-> 400, code |-> -32000, id |-> "null"]

\* What one run of the endpoint handler reads and writes.
Endpoint ==
  [transports |-> transports, activeTransport |-> activeTransport,
   sessions |-> sessions, requests |-> requests, res |-> NoRes]

LookupActive(E, sid) == IF sid # NoTransport THEN E.activeTransport ELSE NoTransport

\* transports.get(sessionId), line 154.
Lookup(E, sid) == IF sid # NoTransport /\ sid \in E.transports THEN sid ELSE NoTransport

OnCloseOfAny(E, t) ==
  [E EXCEPT !.activeTransport = NoTransport,
            !.transports = IF E.sessions[t].initialized THEN @ \ {t} ELSE @]

\* transport.onclose, lines 190-198.
OnClose(E, t) ==
  [E EXCEPT !.activeTransport = IF @ = t THEN NoTransport ELSE @,
            !.transports = IF E.sessions[t].initialized THEN @ \ {t} ELSE @]

\* transport.close(): the SDK tears the transport down and calls onclose.
TransportClose(E, t) == OnClose([E EXCEPT !.sessions[t].state = "closed"], t)

\* A slot for the next transport to construct.
FreshTransports(E) ==
  {t \in TransportIds :
     E.sessions[t].state = "free" /\ \A q \in RequestIds : E.requests[q].transport # t}

CreateRegistered(E, q) ==
  [E EXCEPT !.sessions[E.requests[q].transport] = [FreeTransport EXCEPT !.state = "new"],
            !.transports = @ \cup {E.requests[q].transport},
            !.requests[q].pc = "connect"]

\* Lines 181-200: the transport is constructed and server.connect is called.
CreateTransport(E, q) ==
  [E EXCEPT !.sessions[E.requests[q].transport] = [FreeTransport EXCEPT !.state = "new"],
            !.requests[q].pc = "connect"]

Established(E) ==
  {t \in TransportIds : E.sessions[t].initialized /\ E.sessions[t].state = "started"}

\* Line 155: body says whether isInitializeRequest(req.body).
isInitRequest(method, body) == method = "POST" /\ body

\* Lines 204-208: handleRequest is called, with the body unless GET or DELETE.
HandleRequest(E, q) ==
  [E EXCEPT !.requests[q].pc = "handle",
            !.requests[q].payload = E.requests[q].method \notin {"GET", "DELETE"}]

BadRequestUnlessInit(sid, isInit) == ~isInit

\* Line 159.
BadRequest(sid, isInit) == sid # NoTransport \/ ~isInit

\* Lines 152-208, from the arrival of a request to its first await.
Arrive(E, q, method, body, sid) ==
  LET transport == Lookup(E, sid)
      isInit == isInitRequest(method, body)
      R == [IdleRequest EXCEPT !.method = method, !.init = isInit, !.sid = sid,
                               !.seen = Established(E)]
  IN
  IF transport = NoTransport
    THEN IF BadRequest(sid, isInit)
           THEN [E EXCEPT !.res = BadRequestReply]
         ELSE LET R1 == [R EXCEPT !.transport = Min(FreshTransports(E))] IN
              IF E.activeTransport # NoTransport
                THEN [TransportClose(E, E.activeTransport)
                        EXCEPT !.requests[q] = [R1 EXCEPT !.pc = "evict"]]
                ELSE CreateTransport([E EXCEPT !.requests[q] = R1], q)
    ELSE HandleRequest([E EXCEPT !.requests[q] = [R EXCEPT !.transport = transport]], q)

\* Lines 173-200: close() of the previous transport returned or threw.
Evicted(E, q) ==
  CreateTransport([E EXCEPT !.activeTransport = NoTransport, !.transports = {}], q)

\* Lines 201-208: server.connect resolved.
Bound(E, q) ==
  LET t == E.requests[q].transport IN
  HandleRequest([E EXCEPT !.sessions[t].state = IF @ = "new" THEN "started" ELSE @,
                          !.activeTransport = t], q)

\* Lines 184-187: onsessioninitialized.
SessionInitialized(E, q) ==
  LET t == E.requests[q].transport IN
  [E EXCEPT !.sessions[t].initialized = TRUE, !.transports = @ \cup {t}]

\* Lines 209-214: the catch block.
Failed(E, q, headersSent) ==
  [E EXCEPT !.requests[q] = IdleRequest,
            !.res = IF headersSent THEN NoRes ELSE [NoRes EXCEPT !.status = 500]]

HandledKeepingSession(E, q) ==
  [E EXCEPT !.requests[q] = IdleRequest, !.res = [NoRes EXCEPT !.status = 200]]

\* Lines 204-208: handleRequest resolved; a DELETE made the SDK close the transport.
Handled(E, q) ==
  LET rq == E.requests[q]
      E1 == IF rq.method = "DELETE" THEN TransportClose(E, rq.transport) ELSE E
  IN [E1 EXCEPT !.requests[q] = IdleRequest, !.res = [NoRes EXCEPT !.status = 200]]

\* A transport nothing refers to is dropped, unless it is still connected.
Deliver(E) ==
  LET held == E.transports \cup {E.activeTransport}
                \cup {E.requests[q].transport : q \in RequestIds}
      gone == {t \in TransportIds \ held : E.sessions[t].state \in {"new", "closed"}}
  IN
  /\ transports' = E.transports
  /\ activeTransport' = E.activeTransport
  /\ sessions' = [t \in TransportIds |-> IF t \in gone THEN FreeTransport ELSE E.sessions[t]]
  /\ requests' = [q \in RequestIds |-> [E.requests[q] EXCEPT !.seen = @ \ gone]]

InitEndpoint ==
  /\ transports = {}
  /\ activeTransport = NoTransport
  /\ sessions = [t \in TransportIds |-> FreeTransport]
  /\ requests = [q \in RequestIds |-> IdleRequest]

\* The requests a client may send: <<method, isInitializeRequest(body)>>.
RequestKinds == {"POST", "GET", "DELETE"} \X BOOLEAN

IdleRequests == {q \in RequestIds : requests[q].pc = "idle"}

\* A request arrives with or without a session id header.
RequestArrives ==
  /\ IdleRequests # {}
  /\ FreshTransports(Endpoint) # {}
  /\ \E kind \in RequestKinds, sid \in TransportIds \cup {NoTransport} :
       Deliver(Arrive(Endpoint, Min(IdleRequests), kind[1], kind[2], sid))
  /\ UNCHANGED <<world, gvars>>

\* activeTransport.close() settled.
CloseSettles ==
  /\ \E q \in RequestIds : requests[q].pc = "evict" /\ Deliver(Evicted(Endpoint, q))
  /\ UNCHANGED <<world, gvars>>

\* server.connect(transport) resolved.
ServerConnects ==
  /\ \E q \in RequestIds : requests[q].pc = "connect" /\ Deliver(Bound(Endpoint, q))
  /\ UNCHANGED <<world, gvars>>

\* server.connect(transport) rejected.
ServerConnectThrows ==
  /\ \E q \in RequestIds : requests[q].pc = "connect" /\ Deliver(Failed(Endpoint, q, FALSE))
  /\ UNCHANGED <<world, gvars>>

\* The transport, handling an initialize request, generated its session id.
SessionInitializes ==
  /\ \E q \in RequestIds :
       /\ requests[q].pc = "handle"
       /\ requests[q].init
       /\ ~sessions[requests[q].transport].initialized
       /\ Deliver(SessionInitialized(Endpoint, q))
  /\ UNCHANGED <<world, gvars>>

\* transport.handleRequest resolved.
HandleResolves ==
  /\ \E q \in RequestIds : requests[q].pc = "handle" /\ Deliver(Handled(Endpoint, q))
  /\ UNCHANGED <<world, gvars>>

\* transport.handleRequest rejected.
HandleThrows ==
  /\ \E q \in RequestIds, headersSent \in BOOLEAN :
       requests[q].pc = "handle" /\ Deliver(Failed(Endpoint, q, headersSent))
  /\ UNCHANGED <<world, gvars>>

EndpointStep ==
  \/ RequestArrives
  \/ CloseSettles
  \/ ServerConnects
  \/ ServerConnectThrows
  \/ SessionInitializes
  \/ HandleResolves
  \/ HandleThrows

\* ================================================================ specifications
Init == world = "call" /\ InitGateway /\ InitEndpoint
InitSync == world = "sync" /\ InitGateway /\ InitEndpoint
InitPair == world = "pair" /\ InitGateway /\ InitEndpoint
InitRequests == world = "endpoint" /\ InitGateway /\ InitEndpoint
InitServe == world = "serve" /\ InitGateway /\ InitEndpoint
InitSwap == world = "swap" /\ InitGateway /\ InitEndpoint

\* One upstream, reloads and dispatches.
Next == ReloadStep \/ DispatchStep
Spec == Init /\ [][Next]_vars

\* One upstream whose URL the reloads change, reloads and dispatches.
SpecSwap == InitSwap /\ [][Next]_vars

\* One upstream in full detail, reloads only.
SpecSync == InitSync /\ [][ReloadStep]_vars

\* A call that a synchronization awaits settles.
Settles == CallRejects \/ ConnectResolves \/ ListResolves

\* A reload is waiting for close() of a client to return.
ClosePending == \E r \in ReloadIds : reloads[r].pc \in {"closeRemoved", "closeReset"}

\* One upstream and reloads only, where every awaited call settles in the end:
\* each fetch is bounded by createFetchWithTimeout, and close() returns.
SpecLive ==
  Init /\ [][ReloadStep]_vars /\ WF_vars(Settles) /\ []<>~ClosePending

\* Two upstreams, reloads only.
SpecPair == InitPair /\ [][ReloadStep]_vars

\* One endpoint and its requests.
SpecEndpoint == InitRequests /\ [][EndpointStep]_vars

\* Two upstreams, the registry as the gateway's start loaded it, dispatches.
ServeStep ==
  \/ GatewayInit
  \/ CallListUpstreams
  \/ CallTool
  \/ GetPrompt
  \/ ReadResource
  \/ ConnectResolves
  \/ ListResolves
  \/ CallRejects
  \/ ForwardResolves
  \/ ForwardRejects
SpecServe == InitServe /\ [][ServeStep]_vars

\* ================================================================ properties
InFlight == {r \in ReloadIds : reloads[r].pc # "idle"}

\* C1: reloads are mutually exclusive.  At most one run of reloadUpstreams is
\* past the guard at any time, and a reload called while one is returns
\* "Reload already in progress" at once: it loads no configuration, changes no
\* entry of the registry, starts no synchronization and leaves the flag set.
C1_ReloadsExclusive ==
  /\ Cardinality(InFlight) <= 1
  /\ InFlight # {} => refreshing
  /\ refreshing =>
       \A r \in ReloadIds, force \in BOOLEAN, sync \in BOOLEAN, in \in LoadInputs(world) :
         StartReload(Machine, r, force, sync, in[1], in[2])
           = [Machine EXCEPT !.out = Reply("reload", "busy", "")]

\* A reload waits for its synchronizations and a second one is turned away.
C1_Witness ==
  \E r \in ReloadIds :
    /\ reloads[r].pc = "sync"
    /\ StartReload(Machine, 2, TRUE, TRUE, Doc(FALSE, TRUE, <<>>), "").out.code = "busy"

\* The entries a step deletes from the registry.
Removed == {k \in 1..Len(upstreams) : upstreams[k].name \notin Names(upstreams')}

C4_FailedSyncKeepsCache ==
  \A t \in syncs :
    LET R == SyncFailed(Machine, t, ErrorOf(t.pc))
        was == heap[t.obj]
        now == R.heap[t.obj]
    IN /\ ~t.dirty
       /\ now.tools = was.tools /\ now.prompts = was.prompts
       /\ now.resources = was.resources
       /\ now.lastSync = was.lastSync
       /\ now.status = "error"
       /\ now.lastError = ErrorOf(t.pc)

\* C5: no reader sees a partly replaced listing: whenever list_tools,
\* list_prompts or list_resources shows an upstream, the tools, prompts and
\* resources of that upstream are those of one completed synchronization (no
\* synchronization still running has replaced one of them).
C5_ListingsReplacedAtOnce ==
  \A e \in listTools \cup listPrompts \cup listResources :
    \A t \in syncs : t.obj = Get(upstreams, e.upstream) => ~t.dirty

\* C6: a failed synchronization of one upstream changes nothing of any other
\* upstream, leaves the other synchronizations of the reload running and the
\* reload waiting for them, and each of them can still complete.
C6_FailureIsIsolated ==
  \A t \in syncs :
    LET R == AfterSync(SyncFailed(Machine, t, ErrorOf(t.pc)), t)
        others == {u \in syncs : u.obj # t.obj}
    IN /\ \A o \in ObjIds \ {t.obj} : R.heap[o] = heap[o]
       /\ others \subseteq R.syncs
       /\ \A u \in others :
            /\ u.owner = t.owner => R.reloads[t.owner.id].pc = "sync"
            /\ (u.pc = "listTools" /\ CallOpen(R, u.obj, u.callOn)) =>
                 \A v \in Listings :
                   AfterSync(ListReturned(R, u, v, MaxTime), u).heap[u.obj].status
                     = "connected"

\* The synchronization of one upstream has failed while the one of the other is
\* still running in the same reload.
C6_Witness ==
  \E r \in ReloadIds, t \in syncs :
    /\ reloads[r].pc = "sync"
    /\ t.owner = ReloadOwner(r)
    /\ \E k \in 1..Len(upstreams) :
         /\ upstreams[k].obj # t.obj
         /\ heap[upstreams[k].obj].status = "error"
         /\ heap[upstreams[k].obj].lastSync = 0
         /\ \A u \in syncs : u.obj # upstreams[k].obj

\* C9: when the synchronization a dispatch makes for an upstream that is not
\* connected fails, the call is not forwarded and the caller gets the internal
\* error "Upstream <name> unavailable", whether or not the entry holds a client.
C9_FailedHealNotForwarded ==
  \A t \in syncs :
    t.owner.kind = "dispatch" =>
      LET R == AfterSync(SyncFailed(Machine, t, ErrorOf(t.pc)), t) IN
        /\ R.dispatches[t.owner.id].pc # "forward"
        /\ R.out.code = "unavailable"

C2_SingleSession ==
  /\ Cardinality(transports) <= 1
  /\ transports \subseteq {activeTransport}

\* C7: once an initialize request without session id that arrived after a
\* session was established has its new session bound, the transport of the
\* earlier session has been closed, its id is no longer registered, and a
\* request carrying that id is answered 400 with JSON-RPC error -32000.
C7_NewSessionEvictsOld ==
  \A q \in RequestIds :
    (/\ requests[q].pc = "handle"
     /\ requests[q].init
     /\ requests[q].sid = NoTransport
     /\ activeTransport = requests[q].transport) =>
      \A t \in requests[q].seen :
        /\ sessions[t].state = "closed"
        /\ t \notin transports
        /\ \A kind \in RequestKinds :
             Arrive(Endpoint, q, kind[1], kind[2], t).res = BadRequestReply

\* C8: a transport that stops being routable (it leaves the map and is not the
\* active transport any more) has had close() invoked.
C8_UnroutableAreClosed ==
  [][\A t \in TransportIds :
       ((t \in transports \/ activeTransport = t)
          /\ t \notin transports' /\ activeTransport' # t)
         => sessions'[t].state \in {"closed", "free"}]_vars

\* Whether the run that ends in S has lost hold of an open connection.
Leaks(S) == Collect(S).out.leak

\* C11: no connection is leaked.  Two objects of one upstream never hold an
\* open client each, and no run of a handler (a reload, a step of a
\* synchronization, a dispatch) makes an entry lose hold of, or drops an entry
\* that holds, a client on which close() was never invoked.
C11_NoConnectionLeaked ==
  /\ \A o1 \in ObjIds, o2 \in ObjIds :
       (o1 # o2 /\ heap[o1].config.name = heap[o2].config.name) =>
         ~(heap[o1].client.open /\ heap[o2].client.open)
  /\ \A t \in syncs :
       /\ ~Leaks(AfterSync(SyncFailed(Machine, t, ErrorOf(t.pc)), t))
       /\ t.pc = "connect" =>
            \A caps \in CapsChoices(world) : ~Leaks(AfterSync(Connected(Machine, t, caps), t))
       /\ (t.pc # "connect" /\ CallOpen(Machine, t.obj, t.callOn)) =>
            \A v \in Listings : ~Leaks(AfterSync(ListReturned(Machine, t, v, MaxTime), t))
  /\ \A r \in ReloadIds :
       /\ reloads[r].pc = "closeRemoved" => ~Leaks(ResumeRemove(Machine, r))
       /\ reloads[r].pc = "closeReset" => ~Leaks(ResumeReset(Machine, r))
       /\ (reloads[r].pc = "idle" /\ phase = "running") =>
            \A force \in BOOLEAN, in \in LoadInputs(world) :
              ~Leaks(StartReload(Machine, r, force, TRUE, in[1], in[2]))
  /\ \A d \in DispatchIds :
       /\ dispatches[d].pc = "forward" =>
            ~Leaks(Returned(Machine, d)) /\ ~Leaks(Rejected(Machine, d))
       /\ (dispatches[d].pc = "idle" /\ phase = "running") =>
            \A name \in ToolNames : ~Leaks(callTool(Machine, d, name))

\* C12: a call is forwarded only to a registered upstream.  Whenever a dispatch
\* starts its forwarded call, the name of the upstream it forwards to is in the
\* registry.
C12_ForwardedToRegistered ==
  [][\A d \in DispatchIds :
       (dispatches[d].pc # "forward" /\ dispatches'[d].pc = "forward")
         => dispatches'[d].up \in Names(upstreams')]_vars

\* The inputs of a reload that fail on a configuration error: a document that is
\* malformed, names an upstream twice, uses the reserved name, points at the
\* gateway or at no URL, or refers to an environment variable that is not set.
ConfigErrors(w) ==
  {<<doc, "">> : doc \in InvalidDocs(w)} \cup {in \in PlaceholderDocs(w) : in[2] = ""}

\* C13: a reload that fails on a configuration error changes nothing.  Whatever
\* the registry holds, a reload given such an input throws with the registry,
\* every entry (config, client, status, listings) and the running
\* synchronizations exactly as before, and with the reload flag clear again.
C13_ConfigErrorChangesNothing ==
  ~refreshing =>
    \A r \in IdleReloads(Machine), force \in BOOLEAN, sync \in BOOLEAN,
       in \in ConfigErrors(world) :
      Collect(StartReload(Machine, r, force, sync, in[1], in[2]))
        = [Machine EXCEPT !.out = Reply("reload", "threw", "")]

\* A reload that names the reserved upstream is refused while the registry holds
\* a connected upstream.
C13_Witness ==
  /\ ~refreshing
  /\ \E k \in 1..Len(upstreams) :
       /\ heap[upstreams[k].obj].client.open
       /\ heap[upstreams[k].obj].tools # 0
  /\ StartReload(Machine, 1, TRUE, TRUE,
                 Doc(TRUE, TRUE, <<Entry("a", "u1", TRUE), Entry(gatewayPrefix, "u1", TRUE)>>),
                 "").out.code = "threw"

\* The entries whose stored configuration hash is that of their entry in the
\* incoming list.
Unchanged(S, incoming) ==
  {k \in 1..Len(S.upstreams) :
     \E j \in 1..Len(incoming) :
       /\ incoming[j].name = S.upstreams[k].name
       /\ hashConfig(incoming[j]) = S.heap[S.upstreams[k].obj].configHash}

\* Entry k of the registry of S is in R what it is in S: registered, with the
\* same client and the same cached listings.
Untouched(S, R, k) ==
  LET o == S.upstreams[k].obj IN
  /\ Get(R.upstreams, S.upstreams[k].name) = o
  /\ R.heap[o].client = S.heap[o].client
  /\ R.heap[o].tools = S.heap[o].tools
  /\ R.heap[o].prompts = S.heap[o].prompts
  /\ R.heap[o].resources = S.heap[o].resources

\* C14 (amended): a reload with force = false does not reset an upstream whose
\* configuration hash is unchanged.  Its removal and add/reset loops, from the
\* call and after each close() they await, leave the client handle and the
\* cached tools, prompts and resources of every such upstream exactly as they
\* were; only the synchronization pass that follows may connect the upstream
\* and replace its listings.
C14_UnchangedNotReset ==
  /\ ~refreshing =>
       \A r \in IdleReloads(Machine), sync \in BOOLEAN, in \in LoadInputs(world) :
         LET R == StartReload(Machine, r, FALSE, sync, in[1], in[2]) IN
           \A k \in Unchanged(Machine, loadUpstreamsConfig(in[1], in[2]).upstreams) :
             Untouched(Machine, R, k)
  /\ \A r \in ReloadIds :
       ~reloads[r].force =>
         /\ reloads[r].pc = "closeRemoved" =>
              \A k \in Unchanged(Machine, reloads[r].incoming) :
                Untouched(Machine, ResumeRemove(Machine, r), k)
         /\ reloads[r].pc = "closeReset" =>
              \A k \in Unchanged(Machine, reloads[r].incoming) :
                Untouched(Machine, ResumeReset(Machine, r), k)

\* A reload with force = false finds a connected upstream with cached tools
\* under the configuration it already has, and goes on to synchronize it.
C14_Witness ==
  /\ ~refreshing
  /\ \E k \in 1..Len(upstreams) :
       LET st == heap[upstreams[k].obj]
           R == StartReload(Machine, 1, FALSE, TRUE, Doc(TRUE, TRUE, <<st.config>>), "")
       IN /\ st.client.open
          /\ st.tools # 0
          /\ k \in Unchanged(Machine, <<st.config>>)
          /\ R.reloads[1].pc = "sync"

\* C14 (as stated): a reload with force = false, the synchronizations it
\* starts included, leaves the client handle and the cached listings of every
\* upstream whose configuration hash is unchanged exactly as they were.
C14_UnchangedUntouched ==
  ~refreshing =>
    \A r \in IdleReloads(Machine), in \in LoadInputs(world) :
      LET R == StartReload(Machine, r, FALSE, TRUE, in[1], in[2]) IN
        \A k \in Unchanged(Machine, loadUpstreamsConfig(in[1], in[2]).upstreams) :
          /\ Untouched(Machine, R, k)
          /\ \A t \in OwnedSyncs(R, ReloadOwner(r)) :
               t.obj = upstreams[k].obj =>
                 /\ t.pc = "connect" =>
                      \A caps \in CapsChoices(world) :
                        Untouched(Machine, Connected(R, t, caps), k)
                 /\ t.pc = "listTools" =>
                      \A v \in Listings :
                        Untouched(Machine, ListReturned(R, t, v, MaxTime), k)

\* C15: a request that resolves to no registered session is accepted only if it
\* carries no session id and is a POST initialize request.  Every other one (no
\* id and not an initialize request, or an id that is not registered, whatever
\* its body) is answered 400 with JSON-RPC error -32000 and id null, reaches no
\* transport and leaves the active transport, the id map and every session as
\* they were.
C15_UnresolvedRejected ==
  \A q \in IdleRequests, kind \in RequestKinds, sid \in TransportIds \cup {NoTransport} :
    sid \notin transports =>
      IF sid = NoTransport /\ kind = <<"POST", TRUE>>
        THEN FreshTransports(Endpoint) # {} =>
               LET R == Arrive(Endpoint, q, kind[1], kind[2], sid) IN
                 /\ R.requests[q].pc \in {"evict", "connect"}
                 /\ R.res = NoRes
        ELSE Arrive(Endpoint, q, kind[1], kind[2], sid)
               = [Endpoint EXCEPT !.res = BadRequestReply]

\* While a session is registered and active, an initialize request that carries
\* an id no session has is answered 400.
C15_Witness ==
  /\ activeTransport # NoTransport
  /\ activeTransport \in transports
  /\ \E q \in IdleRequests, sid \in TransportIds \ transports :
       Arrive(Endpoint, q, "POST", TRUE, sid).res = BadRequestReply

\* C16: a request whose session id is registered is forwarded to exactly the
\* transport registered under that id, GET and DELETE without a payload and every
\* other method with the decoded body; neither its arrival nor its handling
\* creates a transport or touches another session.
C16_RegisteredRouted ==
  /\ \A q \in IdleRequests, kind \in RequestKinds, sid \in transports :
       LET R == Arrive(Endpoint, q, kind[1], kind[2], sid) IN
         /\ R.requests[q].pc = "handle"
         /\ R.requests[q].transport = sid
         /\ R.requests[q].payload = (kind[1] \notin {"GET", "DELETE"})
         /\ R.transports = transports
         /\ R.activeTransport = activeTransport
         /\ R.sessions = sessions
         /\ \A p \in RequestIds \ {q} : R.requests[p] = requests[p]
  /\ \A q \in RequestIds :
       (requests[q].pc = "handle" /\ requests[q].sid # NoTransport) =>
         /\ requests[q].transport = requests[q].sid
         /\ sessions[requests[q].transport].initialized
         /\ \A R \in {Handled(Endpoint, q)} \cup {Failed(Endpoint, q, h) : h \in BOOLEAN} :
              \A t \in TransportIds \ {requests[q].transport} :
                /\ R.sessions[t] = sessions[t]
                /\ (t \in R.transports) = (t \in transports)
                /\ (R.activeTransport = t) = (activeTransport = t)

\* A DELETE that carries the id of a registered session is being handled by the
\* transport of that session, without a payload.
C16_Witness ==
  \E q \in RequestIds :
    /\ requests[q].pc = "handle"
    /\ requests[q].method = "DELETE"
    /\ requests[q].sid # NoTransport
    /\ requests[q].transport = requests[q].sid
    /\ ~requests[q].payload

\* C17: list_tools is the two gateway-native descriptors and, for every upstream
\* whose status is "connected", its cached tools under the name
\* <upstream>.<tool>; an upstream in status "error" or "disabled" contributes
\* nothing, whatever it has cached and whatever synchronization is running, and
\* list_prompts and list_resources are gated the same way.
C17_ListsConnectedOnly ==
  /\ gatewayTools \subseteq listTools
  /\ {e.name : e \in gatewayTools}
       = {<<gatewayPrefix, ".", "list_upstreams">>, <<gatewayPrefix, ".", "reload_upstreams">>}
  /\ \A field \in {"tools", "prompts", "resources"} :
       LET listed == IF field = "tools" THEN listTools \ gatewayTools
                     ELSE IF field = "prompts" THEN listPrompts ELSE listResources
       IN
       /\ \A e \in listed :
            LET sp == splitNamespaced(e.name)
                o == Get(upstreams, e.upstream)
            IN /\ sp.ok /\ sp.upstream = e.upstream /\ sp.name = <<"t">>
               /\ o # NoObj
               /\ heap[o].status = "connected"
               /\ e.listing = heap[o][field] /\ e.listing # 0
       /\ \A k \in 1..Len(upstreams) :
            LET st == heap[upstreams[k].obj]
                mine == {e \in listed : e.upstream = upstreams[k].name}
            IN IF st.status = "connected" /\ st[field] # 0
                 THEN Cardinality(mine) = 1
                 ELSE mine = {}

\* One upstream is connected and listed while the other, in status "error" with
\* tools cached and a synchronization running, is not.
C17_Witness ==
  \E k \in 1..Len(upstreams), t \in syncs :
    /\ t.obj = upstreams[k].obj
    /\ heap[upstreams[k].obj].status = "error"
    /\ heap[upstreams[k].obj].tools # 0
    /\ Cardinality(listTools) = 3

\* C18: an upstream is listed only while it is enabled.  While the configuration
\* of an upstream has enabled = false, list_tools holds none of its tools; and
\* when a synchronization of a forced reload succeeds for an upstream that is
\* enabled, list_tools from then on holds the tools it advertised.
C18_DisabledNotListed ==
  /\ \A k \in 1..Len(upstreams) :
       ~heap[upstreams[k].obj].config.enabled =>
         \A e \in listTools : e.upstream # upstreams[k].name
  /\ \A t \in syncs, v \in Listings \ {0} :
       (/\ t.owner.kind = "reload"
        /\ reloads[t.owner.id].force
        /\ t.pc = "listTools"
        /\ ~t.caps.prompts /\ ~t.caps.resources
        /\ CallOpen(Machine, t.obj, t.callOn)
        /\ \E k \in 1..Len(upstreams) : upstreams[k].obj = t.obj) =>
         LET R == AfterSync(ListReturned(Machine, t, v, MaxTime), t) IN
           Descriptor(heap[t.obj].config.name, v) \in ShownIn(R, "tools")

\* C19: a tool call or prompt request whose name holds no "." and is not one of
\* the two gateway-native tools fails with the invalid-parameters error at
\* once: no upstream is looked up, synchronized or contacted, and the registry,
\* every entry and every call in flight are as before.
C19_UnqualifiedNameRejected ==
  phase = "running" =>
    \A d \in IdleDispatches, name \in ToolNames :
      ((\A k \in 1..Len(name) : name[k] # ".") /\ name \notin {e.name : e \in gatewayTools}) =>
        /\ callTool(Machine, d, name)
             = [Machine EXCEPT !.out = Reply("dispatch", "invalidName", "")]
        /\ getPrompt(Machine, d, name)
             = [Machine EXCEPT !.out = Reply("dispatch", "invalidName", "")]

\* A call of the bare name "a" is refused while upstream a is registered and
\* not connected, with a reload in flight.
C19_Witness ==
  /\ phase = "running"
  /\ refreshing
  /\ \E d \in IdleDispatches :
       /\ Get(upstreams, "a") # NoObj
       /\ heap[Get(upstreams, "a")].status # "connected"
       /\ callTool(Machine, d, <<"a">>).out.code = "invalidName"

\* C20: a tool call, prompt request or resource read whose upstream prefix (for a
\* resource, the authority of the decoded URI) is the name of no registry entry
\* fails with the invalid-parameters error that names that upstream; no
\* synchronization is started, no upstream is contacted and nothing changes.
C20_UnknownUpstreamRejected ==
  phase = "running" =>
    \A d \in IdleDispatches :
      /\ \A name \in ToolNames :
           LET split == splitNamespaced(name) IN
           (split.ok /\ split.upstream \notin Names(upstreams)) =>
             /\ callTool(Machine, d, name)
                  = [Machine EXCEPT !.out = Reply("dispatch", "unknownUpstream", split.upstream)]
             /\ getPrompt(Machine, d, name)
                  = [Machine EXCEPT !.out = Reply("dispatch", "unknownUpstream", split.upstream)]
      /\ \A uri \in ResourceUris :
           (decodeResourceUri(uri).ok /\ uri.hostname \notin Names(upstreams)) =>
             readResource(Machine, d, uri)
               = [Machine EXCEPT !.out = Reply("dispatch", "unknownUpstream", uri.hostname)]

\* A call of z.t is refused, naming z, while the registry holds an upstream
\* that is not connected.
C20_Witness ==
  /\ phase = "running"
  /\ \E d \in IdleDispatches, k \in 1..Len(upstreams) :
       /\ heap[upstreams[k].obj].status # "connected"
       /\ heap[upstreams[k].obj].config.enabled
       /\ callTool(Machine, d, <<"z", ".", "t">>).out
            = Reply("dispatch", "unknownUpstream", "z")

\* C21 (amended): the round-trip law of the resource URI codec.  For every
\* registered upstream u and every native URI s that is not empty, whatever its
\* characters ("." and ":" and characters of two, three and four bytes
\* included), decoding the URI the codec makes of (u, s) yields exactly (u, s).
C21_RoundTrip ==
  \A k \in 1..Len(upstreams), s \in NativeUris \ {<<>>} :
    decodeResourceUri(ParseUrl(encodeResourceUri(upstreams[k].name, s)))
      = [ok |-> TRUE, upstream |-> upstreams[k].name, original |-> s]

\* A read of the URI the codec made of a:é for the registered upstream a is
\* dispatched to a.
C21_Witness ==
  /\ phase = "running"
  /\ Get(upstreams, "a") # NoObj
  /\ \E d \in IdleDispatches :
       /\ ParseUrl(encodeResourceUri("a", <<97, 58, 233>>)) \in ResourceUris
       /\ readResource(Machine, d, ParseUrl(encodeResourceUri("a", <<97, 58, 233>>)))
            .dispatches[d].up = "a"

\* C21 (as stated): the same for every native URI, the empty one included.
C21_RoundTripOfAny ==
  \A k \in 1..Len(upstreams), s \in NativeUris :
    decodeResourceUri(ParseUrl(encodeResourceUri(upstreams[k].name, s)))
      = [ok |-> TRUE, upstream |-> upstreams[k].name, original |-> s]

\* C22: a resource read whose URI is no URL, has another scheme than the
\* gateway's, or lacks the upstream authority or the encoded path fails with the
\* invalid-parameters error at once: no upstream is looked up, synchronized or
\* contacted, and the registry, every entry and every call in flight are as
\* before.
C22_ForeignUriRejected ==
  phase = "running" =>
    \A d \in IdleDispatches, uri \in ResourceUris :
      (\/ ~uri.parses
       \/ uri.protocol # resourceScheme
       \/ uri.hostname = ""
       \/ uri.pathname \in {<<>>, <<"/">>}) =>
        readResource(Machine, d, uri)
          = [Machine EXCEPT !.out = Reply("dispatch", "invalidUri", "")]

\* A read of an https URI whose authority is the registered, not connected
\* upstream a is refused.
C22_Witness ==
  /\ phase = "running"
  /\ Get(upstreams, "a") # NoObj
  /\ heap[Get(upstreams, "a")].status # "connected"
  /\ heap[Get(upstreams, "a")].config.enabled
  /\ \E d \in IdleDispatches, uri \in ResourceUris :
       /\ uri.protocol = "https:"
       /\ uri.hostname = "a"
       /\ readResource(Machine, d, uri).out.code = "invalidUri"

\* C23: listing and dispatch agree on names.  For every registered upstream u
\* and every local tool name t, with or without "." in it, the listed name u.t
\* splits into exactly (u, t); a call of it selects the entry of u and no
\* other, the request forwarded carries the local name t with the caller's
\* arguments and task, and the caller gets the upstream's result.
C23_ListedNameDispatches ==
  phase = "running" =>
    \A d \in IdleDispatches, k \in 1..Len(upstreams),
       t \in {<<"t">>, <<"t", ".", "x">>, <<".", "t">>, <<>>} :
      LET u == upstreams[k].name
          listed == <<u, ".">> \o t
          R == callTool(Machine, d, listed)
      IN /\ listed \in ToolNames
         /\ splitNamespaced(listed) = [ok |-> TRUE, upstream |-> u, name |-> t]
         /\ ForwardedCall(listed, "args", "task")
              = [name |-> t, arguments |-> "args", task |-> "task"]
         /\ R.out.code \notin {"invalidName", "unknownUpstream"}
         /\ R.dispatches[d].pc # "idle" =>
              /\ R.dispatches[d].up = u
              /\ R.dispatches[d].obj = upstreams[k].obj
         /\ R.dispatches[d].pc = "forward" =>
              Returned(R, d).out = Reply("dispatch", "result", u)
         /\ \A e \in listTools \ gatewayTools :
              e.upstream = u => splitNamespaced(e.name).upstream = u

\* A call of the listed name a.t.x is forwarded to the connected upstream a.
C23_Witness ==
  /\ phase = "running"
  /\ \E d \in IdleDispatches :
       /\ Descriptor("a", 1) \in listTools
       /\ callTool(Machine, d, <<"a", ".", "t", ".", "x">>).dispatches[d].pc = "forward"
       /\ callTool(Machine, d, <<"a", ".", "t", ".", "x">>).dispatches[d].up = "a"

\* C24: a forwarded call that fails is recorded on its upstream.  When the call
\* a dispatch forwarded rejects, the entry it was forwarded to has status
\* "error" and the message in lastError, and every other entry is as before.
C24_ForwardFailureRecorded ==
  \A d \in DispatchIds :
    dispatches[d].pc = "forward" =>
      LET R == Rejected(Machine, d)
          o == dispatches[d].obj
      IN /\ R.heap[o].status = "error"
         /\ R.heap[o].lastError # NoError
         /\ \A p \in ObjIds \ {o} : R.heap[p] = heap[p]

\* C25: in every reachable state an upstream whose configuration has
\* enabled = false holds no client, and an entry that a reload removed from the
\* registry holds no client that is still open, also when the reload that
\* disabled or removed it ran while a synchronization of it was in flight.
C25_DisabledHoldsNoClient ==
  /\ \A k \in 1..Len(upstreams) :
       ~heap[upstreams[k].obj].config.enabled => ~heap[upstreams[k].obj].client.present
  /\ \A o \in ObjIds :
       (heap[o].live /\ \A k \in 1..Len(upstreams) : upstreams[k].obj # o)
         => ~heap[o].client.open

\* C26: no registry entry is named "gateway".  In every reachable state the
\* registry holds no such name; a reload whose configuration names an upstream
\* "gateway" throws and changes nothing, whatever else it names; and a call of
\* a name with the prefix "gateway." that is no gateway-native tool selects no
\* upstream.
C26_GatewayNameReserved ==
  /\ gatewayPrefix \notin Names(upstreams)
  /\ ~refreshing =>
       \A r \in IdleReloads(Machine), force \in BOOLEAN, sync \in BOOLEAN,
          in \in LoadInputs(world) :
         gatewayPrefix \in IncomingNames(in[1].entries) =>
           StartReload(Machine, r, force, sync, in[1], in[2])
             = [Machine EXCEPT !.out = Reply("reload", "threw", "")]
  /\ phase = "running" =>
       \A d \in IdleDispatches :
         callTool(Machine, d, <<gatewayPrefix, ".", "t">>)
           = [Machine EXCEPT !.out = Reply("dispatch", "unknownUpstream", gatewayPrefix)]

\* With upstreams registered, a reload that names "gateway" next to a is
\* refused and a call of gateway.t finds no upstream.
C26_Witness ==
  /\ phase = "running"
  /\ Len(upstreams) = 2
  /\ \E d \in IdleDispatches :
       callTool(Machine, d, <<gatewayPrefix, ".", "t">>).out.up = gatewayPrefix
  /\ \E in \in LoadInputs(world) :
       /\ gatewayPrefix \in IncomingNames(in[1].entries)
       /\ StartReload(Machine, 1, FALSE, TRUE, in[1], in[2]).out.code = "threw"

\* C27: a transport is in the id-to-transport map only once its initialization
\* handshake has produced its session id.  Every transport of the map is
\* initialized; a transport that was constructed and is not yet initialized is
\* not in the map, the lookup by its id finds nothing, and a request that names
\* it is answered 400 without reaching it.
C27_RegisteredOnceInitialized ==
  /\ \A t \in transports : sessions[t].initialized
  /\ \A t \in TransportIds :
       sessions[t].state # "free" /\ ~sessions[t].initialized =>
         /\ t \notin transports
         /\ Lookup(Endpoint, t) = NoTransport
         /\ \A q \in IdleRequests, kind \in RequestKinds :
              Arrive(Endpoint, q, kind[1], kind[2], t)
                = [Endpoint EXCEPT !.res = BadRequestReply]

\* A transport is connected to the server and active, its handshake has not
\* yet produced the session id, and another request can arrive.
C27_Witness ==
  \E t \in TransportIds :
    /\ sessions[t].state = "started"
    /\ ~sessions[t].initialized
    /\ activeTransport = t
    /\ t \notin transports
    /\ IdleRequests # {}

\* The runs of reloadUpstreams the current state allows, each from where it
\* starts or resumes to where it next awaits or has passed its last await.
ReloadRuns ==
  {StartReload(Machine, 1, TRUE, FALSE, in[1], in[2]) :
     in \in {i \in LoadInputs(world) : phase = "new"}}
  \cup {StartReload(Machine, x[1], x[2], TRUE, x[3][1], x[3][2]) :
     x \in {y \in IdleReloads(Machine) \X BOOLEAN \X LoadInputs(world) :
              phase = "running" /\ y[1] = Min(IdleReloads(Machine))}}
  \cup {ResumeRemove(Machine, r) : r \in {q \in ReloadIds : reloads[q].pc = "closeRemoved"}}
  \cup {ResumeReset(Machine, r) : r \in {q \in ReloadIds : reloads[q].pc = "closeReset"}}
  \cup {AfterSync(Connected(Machine, x[1], x[2]), x[1]) :
     x \in {y \in syncs \X CapsChoices(world) : y[1].pc = "connect"}}
  \cup {AfterSync(ListReturned(Machine, x[1], x[2], x[3]), x[1]) :
     x \in {y \in syncs \X Listings \X Times :
              /\ y[1].pc \in {"listTools", "listPrompts", "listResources"}
              /\ CallOpen(Machine, y[1].obj, y[1].callOn)
              /\ y[3] >= heap[y[1].obj].lastSync}}
  \cup {AfterSync(SyncFailed(Machine, t, ErrorOf(t.pc)), t) : t \in syncs}

\* C28: a reload emits the list-changed notifications exactly when it passes its
\* last await with a transport connected to the gateway server, and by then
\* every synchronization it started has returned; a run that ends in the busy
\* reply or in a throw, and a run that leaves the reload waiting, emits none.
C28_NotifiedAfterSyncs ==
  \A S \in ReloadRuns :
    /\ \A r \in ReloadIds :
         S.reloads[r].pc = "tail" =>
           /\ OwnedSyncs(S, ReloadOwner(r)) = {}
           /\ S.out.notified = FALSE
           /\ \A listening \in BOOLEAN :
                LET T == ReloadTail(S, r, listening) IN
                /\ T.out.code = "ok"
                /\ T.out.notified = listening
                /\ ~T.refreshing
    /\ S.out.code \in {"busy", "threw"} =>
         /\ S.out.notified = FALSE
         /\ \A r \in ReloadIds : S.reloads[r].pc # "tail"
    /\ (\A r \in ReloadIds : S.reloads[r].pc # "tail") => S.out.notified = FALSE

\* A reload over two upstreams has one synchronization left; once it returns
\* the reload passes its last await.
C28_Witness ==
  /\ Len(upstreams) = 2
  /\ \E r \in ReloadIds :
       /\ reloads[r].pc = "sync"
       /\ Cardinality(OwnedSyncs(Machine, ReloadOwner(r))) = 1
       /\ \E S \in ReloadRuns : S.reloads[r].pc = "tail"
  /\ \E S \in ReloadRuns : S.out.code = "busy"

\* C29: the registry load is all-or-nothing.  For every document and
\* environment, loadUpstreamsConfig either returns one entry per entry of the
\* document, in the document's order, with pairwise-distinct names and with the
\* url and every header value expanded so that no placeholder is left, or it
\* throws and produces no entry; it throws exactly when the document exists and
\* is malformed, names an upstream twice, or refers to an unset variable, and
\* the reload that called it then changes nothing.
C29_LoadAllOrNothing ==
  \A in \in LoadInputs(world) :
    LET doc == in[1]
        env == in[2]
        file == loadUpstreamsConfig(doc, env)
        n == IF doc.exists /\ doc.wellFormed THEN Len(doc.entries) ELSE 0
        values(e) == {e.url} \cup HeaderValues(e)
    IN
    /\ ~file.ok => file.upstreams = <<>>
    /\ file.ok =>
         /\ Len(file.upstreams) = n
         /\ \A j, k \in 1..n : j # k => file.upstreams[j].name # file.upstreams[k].name
         /\ \A k \in 1..n :
              /\ file.upstreams[k].name = doc.entries[k].name
              /\ file.upstreams[k].enabled = doc.entries[k].enabled
              /\ DOMAIN file.upstreams[k] = DOMAIN doc.entries[k]
              /\ Placeholder \notin values(file.upstreams[k])
              /\ values(file.upstreams[k]) =
                   {IF v = Placeholder THEN env ELSE v : v \in values(doc.entries[k])}
    /\ ~file.ok <=>
         /\ doc.exists
         /\ \/ ~doc.wellFormed
            \/ \E j, k \in 1..n : j # k /\ doc.entries[j].name = doc.entries[k].name
            \/ env = "" /\ \E k \in 1..n : Placeholder \in values(doc.entries[k])
    /\ ~file.ok /\ ~refreshing =>
         \A r \in IdleReloads(Machine), force \in BOOLEAN, sync \in BOOLEAN :
           StartReload(Machine, r, force, sync, doc, env)
             = [Machine EXCEPT !.out = Reply("reload", "threw", "")]

\* The registry holds an entry whose header value was a placeholder in the
\* document it was loaded from.
C29_Witness ==
  /\ phase = "running"
  /\ Len(upstreams) = 1
  /\ LET c == heap[upstreams[1].obj].config IN
       "headers" \in DOMAIN c /\ c.headers.auth = "u1" /\ c.url = "u1"
  /\ \E in \in LoadInputs(world) :
       /\ in[2] = ""
       /\ in[1].entries # <<>>
       /\ Placeholder \in HeaderValues(in[1].entries[1])
       /\ ~loadUpstreamsConfig(in[1], in[2]).ok

\* C30: once a reload has returned, a client an upstream holds was connected
\* with the URL of the config the upstream now has: the reload that assigned a
\* changed config cleared the client held before, and whatever was assigned
\* since was connected with the new config, also when synchronizations that
\* dispatches started interleave with the reload.
C30_ClientOfCurrentConfig ==
  ~refreshing =>
    \A k \in 1..Len(upstreams) :
      LET st == heap[upstreams[k].obj] IN
      st.client.present => st.client.url = st.config.url

\* C32: synchronizing an upstream whose config has enabled = false sets its
\* status to disabled and nothing else, and makes no connect or list call.  For
\* every registered disabled entry, syncUpstream changes the status field only;
\* and a run of a reload that reaches its synchronization pass leaves every
\* disabled upstream that was registered before the run with status disabled,
\* with the tools, prompts, resources, lastSync and lastError it had, with no
\* client assigned, and with no call in flight that the reload started.
C32_DisabledSyncSetsStatusOnly ==
  /\ \A k \in 1..Len(upstreams), owner \in {ReloadOwner(r) : r \in ReloadIds} :
       LET o == upstreams[k].obj IN
       ~heap[o].config.enabled =>
         StartSync(Machine, owner, o) = [Machine EXCEPT !.heap[o].status = "disabled"]
  /\ \A S \in ReloadRuns, r \in ReloadIds :
       reloads[r].pc # "sync" /\ S.reloads[r].pc \in {"sync", "tail"} =>
         \A k \in 1..Len(upstreams) :
           LET o == upstreams[k].obj IN
           Get(S.upstreams, upstreams[k].name) = o /\ ~S.heap[o].config.enabled
           => /\ S.heap[o].status = "disabled"
              /\ \A t \in OwnedSyncs(S, ReloadOwner(r)) : t.obj # o
              /\ S.heap[o].client.present => S.heap[o].client = heap[o].client
              /\ \A f \in {"tools", "prompts", "resources", "lastSync", "lastError"} :
                   S.heap[o][f] = heap[o][f]

\* A reload that gives a connected upstream with cached tools a disabled config
\* has closed the old client and is about to reset and synchronize the entry.
C32_Witness ==
  /\ Len(upstreams) = 1
  /\ LET st == heap[upstreams[1].obj] IN
       /\ st.config.enabled
       /\ st.status = "connected"
       /\ st.tools # 0
       /\ st.lastSync # 0
  /\ \E r \in ReloadIds :
       /\ reloads[r].pc = "closeReset"
       /\ \E S \in ReloadRuns :
            /\ S.reloads[r].pc = "tail"
            /\ ~S.heap[upstreams[1].obj].config.enabled
            /\ S.heap[upstreams[1].obj].status = "disabled"

\* C34: a synchronization of an enabled upstream lists tools first, lists
\* prompts only if the capabilities the upstream advertised include prompts and
\* resources only if they include resources; for a capability that is not
\* advertised no list call is in flight and, once the synchronization has
\* succeeded, the cached listing is empty.
C34_ListsWhatIsAdvertised ==
  /\ \A t \in syncs :
       /\ t.pc = "listPrompts" => t.caps.prompts
       /\ t.pc = "listResources" => t.caps.resources
  /\ \A t \in syncs, caps \in CapsChoices(world) :
       t.pc = "connect" =>
         LET R == Connected(Machine, t, caps) IN
         {u.pc : u \in {x \in R.syncs : x.owner = t.owner /\ x.obj = t.obj}} = {"listTools"}
  /\ \A t \in syncs, v \in Listings, now \in Times :
       t.pc \in {"listTools", "listPrompts", "listResources"} =>
         LET R == ListReturned(Machine, t, v, now)
             caps == IF t.pc = "listTools" THEN heap[t.obj].client.caps ELSE t.caps
             next == {u.pc : u \in {x \in R.syncs : x.owner = t.owner /\ x.obj = t.obj}}
             succeeded == next = {} /\ R.heap[t.obj].status = "connected"
                                    /\ R.heap[t.obj].lastError = NoError
         IN
         /\ t.pc = "listTools" /\ heap[t.obj].client.present =>
              /\ R.heap[t.obj].tools = v
              /\ next = IF caps.prompts THEN {"listPrompts"}
                        ELSE IF caps.resources THEN {"listResources"} ELSE {}
         /\ t.pc = "listPrompts" =>
              /\ R.heap[t.obj].prompts = v
              /\ next = IF caps.resources /\ heap[t.obj].client.present
                          THEN {"listResources"} ELSE {}
         /\ t.pc = "listResources" => R.heap[t.obj].resources = v /\ next = {}
         /\ succeeded =>
              /\ ~caps.prompts => R.heap[t.obj].prompts = 0
              /\ ~caps.resources => R.heap[t.obj].resources = 0

\* The tools of an upstream that advertises resources and no prompts are being
\* listed while the cache still holds prompts of an earlier connection.
C34_Witness ==
  \E t \in syncs :
    /\ t.pc = "listTools"
    /\ heap[t.obj].client.present
    /\ ~heap[t.obj].client.caps.prompts
    /\ heap[t.obj].client.caps.resources
    /\ heap[t.obj].prompts # 0

\* C35: in every reachable state an upstream whose status is connected holds a
\* client handle, so a dispatch to a connected upstream is never answered
\* "unavailable" without an attempt to synchronize it first; this includes the
\* states between a reload's reset of the entry and the synchronization that
\* follows.
C35_ConnectedHoldsClient ==
  phase = "running" =>
    \A k \in 1..Len(upstreams) :
      LET st == heap[upstreams[k].obj] IN
      st.status = "connected" =>
        /\ st.client.present
        /\ \A d \in IdleDispatches :
             LET S == callTool(Machine, d, <<upstreams[k].name, ".", "t">>) IN
             S.out.code = "unavailable" => S.out.attempts >= 1

\* C38: the close callback of a transport removes that transport's own session
\* id from the id map and nothing else, and clears the active pointer only if
\* it points to that transport; when a DELETE that was routed to a session
\* before it was replaced closes it late, the session that replaced it stays
\* active and registered.
C38_CloseTouchesOwnSessionOnly ==
  /\ \A t \in TransportIds :
       sessions[t].state # "free" =>
         OnClose(Endpoint, t)
           = [Endpoint EXCEPT
                !.activeTransport = IF activeTransport = t THEN NoTransport ELSE activeTransport,
                !.transports = transports \ {t}]
  /\ \A q \in RequestIds :
       requests[q].pc = "handle" /\ requests[q].method = "DELETE" =>
         LET t == requests[q].transport
             R == Handled(Endpoint, q)
         IN
         /\ R.transports = transports \ {t}
         /\ activeTransport # t => R.activeTransport = activeTransport
         /\ \A u \in TransportIds \ {t} : R.sessions[u] = sessions[u]

\* A DELETE is still being handled by a session that a newer, registered and
\* active session has replaced.
C38_Witness ==
  \E q \in RequestIds :
    /\ requests[q].pc = "handle"
    /\ requests[q].method = "DELETE"
    /\ activeTransport \notin {NoTransport, requests[q].transport}
    /\ activeTransport \in transports
    /\ sessions[activeTransport].state = "started"

\* C33: when a session's transport is closed by the client, its id leaves the id
\* map and the active pointer is cleared if it pointed to that transport; from
\* then on the id stays out of the map, every request that carries it is
\* answered 400 / -32000, and an initialize request without a session id is
\* accepted and creates a new transport.
C33_ClosedSessionUnroutable ==
  [][/\ \A q \in RequestIds :
          requests[q].pc = "handle" /\ requests[q].method = "DELETE" =>
            LET t == requests[q].transport
                R == Handled(Endpoint, q)
            IN
            /\ R.sessions[t].state = "closed"
            /\ R.sessions[t].initialized
            /\ t \notin R.transports
            /\ R.activeTransport # t
     /\ \A t \in TransportIds :
          sessions[t].state = "closed" /\ sessions[t].initialized /\ t \notin transports =>
            /\ activeTransport # t
            /\ t \notin transports'
            /\ activeTransport' # t
            /\ sessions'[t].state = "free" \/ sessions'[t] = sessions[t]
            /\ \A q \in IdleRequests, kind \in RequestKinds :
                 Arrive(Endpoint, q, kind[1], kind[2], t)
                   = [Endpoint EXCEPT !.res = BadRequestReply]
            /\ \A q \in IdleRequests :
                 FreshTransports(Endpoint) # {} =>
                   LET R == Arrive(Endpoint, q, "POST", TRUE, NoTransport) IN
                   /\ R.res = NoRes
                   /\ R.requests[q].pc \in {"evict", "connect"}
                   /\ R.requests[q].transport \in FreshTransports(Endpoint) \ {t}
    ]_vars

\* A session that was established is closed and unregistered while a request
\* routed to it earlier is still being handled; another request can arrive.
C33_Witness ==
  \E t \in TransportIds, q \in RequestIds :
    /\ sessions[t].state = "closed"
    /\ sessions[t].initialized
    /\ t \notin transports
    /\ activeTransport = NoTransport
    /\ requests[q].pc = "handle"
    /\ requests[q].transport = t
    /\ requests[q].sid = t
    /\ IdleRequests # {}
    /\ FreshTransports(Endpoint) # {}

\* C37 as stated: if server.connect throws for an initialize request that
\* arrived while a session was established, the request is answered 500 and the
\* endpoint is left with no active transport and an empty id map.
C37_FailedBindLeavesNothing ==
  \A q \in RequestIds :
    requests[q].pc = "connect" /\ requests[q].seen # {} =>
      LET R == Failed(Endpoint, q, FALSE) IN
      /\ R.res.status = 500
      /\ R.activeTransport = NoTransport
      /\ R.transports = {}

\* C39: when the config file does not exist the load yields zero upstreams and
\* no error, and the reload that ran it closes the client of every registered
\* upstream, removes every entry and returns success with upstream count 0: no
\* entry is deleted while the client it holds is open, and when the reload
\* returns the registry is empty.
C39_MissingFileEmptiesRegistry ==
  [][/\ \A env \in {"", "u1"} :
          loadUpstreamsConfig(Doc(FALSE, TRUE, <<>>), env) = [ok |-> TRUE, upstreams |-> <<>>]
     /\ ~refreshing =>
          \A r \in IdleReloads(Machine), force \in BOOLEAN, sync \in BOOLEAN :
            LET S == StartReload(Machine, r, force, sync, Doc(FALSE, TRUE, <<>>), "") IN
            /\ S.out.code # "threw"
            /\ S.reloads[r].pc \in {"closeRemoved", "tail"}
            /\ S.reloads[r].pc = "tail" =>
                 /\ S.upstreams = <<>>
                 /\ \A listening \in BOOLEAN :
                      LET T == ReloadTail(S, r, listening) IN
                      T.out.code = "ok" /\ T.out.n = 0
     /\ \A r \in ReloadIds :
          reloads[r].pc # "idle" /\ reloads[r].incoming = <<>> =>
            /\ \A k \in Removed : ~heap[upstreams[k].obj].client.open
            /\ reloads'[r].pc = "idle" => upstreams' = <<>>]_vars

\* C36: every reload that passes the guard releases the in-progress flag in the
\* end, provided every call it awaits settles: whenever the flag is up, or a
\* reload request would be answered "Reload already in progress", a state
\* follows in which the flag is down and no reload request is answered so.
C36_ReloadReleasesFlag ==
  LET Busy == \E r \in IdleReloads(Machine), force \in BOOLEAN, in \in LoadInputs(world) :
                StartReload(Machine, r, force, TRUE, in[1], in[2]).out.code = "busy"
  IN (refreshing \/ Busy) ~> (~refreshing /\ ~Busy)

\* A reload holds the flag while it waits for the list call of its
\* synchronization, and a request made now is answered busy.
C36_Witness ==
  /\ refreshing
  /\ \E r \in ReloadIds :
       /\ reloads[r].pc = "sync"
       /\ \E t \in OwnedSyncs(Machine, ReloadOwner(r)) : t.pc = "listTools"
  /\ \E r \in IdleReloads(Machine), in \in LoadInputs(world) :
       StartReload(Machine, r, FALSE, TRUE, in[1], in[2]).out.code = "busy"

\* C31: a synchronization that fails ends without another attempt, and an
\* enabled upstream left in status error is synchronized again by every later
\* reload that is not rejected: if timer reloads keep firing and from some
\* point on no call to the upstream fails, an enabled upstream in status error
\* becomes connected, with its tools listed, unless a reload disables or removes
\* it first.
C31_ErrorHealsOnReload ==
  LET Registered == Len(upstreams) = 1
      st == heap[upstreams[1].obj]
      Errored == Registered /\ st.config.enabled /\ st.status = "error"
      Healed == /\ Registered
                /\ st.status = "connected"
                /\ st.tools # 0 => Descriptor(upstreams[1].name, st.tools) \in listTools
      Gone == ~Registered \/ ~st.config.enabled
      NoRetry == \A t \in syncs :
                   LET R == SyncFailed(Machine, t, ErrorOf(t.pc)) IN
                   /\ \A u \in R.syncs : u.owner # t.owner \/ u.obj # t.obj
                   /\ R.heap[t.obj].status = "error"
  IN
  /\ []NoRetry
  /\ ([]<><<TimerTick>>_vars /\ <>[][~CallRejects]_vars) => (Errored ~> (Healed \/ Gone))

\* The registered, enabled upstream is in status error after a failed connect,
\* and no reload is running.
C31_Witness ==
  /\ ~refreshing
  /\ syncs = {}
  /\ Len(upstreams) = 1
  /\ LET st == heap[upstreams[1].obj] IN
       /\ st.config.enabled
       /\ st.status = "error"
       /\ st.lastError = "connect failed"
       /\ ~st.client.present

====
